---------------------------- MODULE Spec2Model ----------------------------
(***************************************************************************)
(* State-machine model of the rendering components of the DEM Systems      *)
(* site: AsciiVideoEngine (js/ascii-video-engine.js), VideoRevealCanvas    *)
(* (js/video-reveal.js), the hero video reveal handle, TextMaskedVideo and *)
(* the metamorphosis phase animator (js/metamorphosis-canvas.js).          *)
(*                                                                         *)
(* The components share no runtime state.  A page instantiates one of      *)
(* them (variable page); the others stay in their constructed state.       *)
(* The browser is the environment: the media element (play promise,        *)
(* readiness, end of media), requestAnimationFrame callbacks, the clock    *)
(* and the tween engine are modelled by nondeterministic actions.          *)
(***************************************************************************)
EXTENDS Integers, Sequences, FiniteSets, TLC

VARIABLES
  page,         \* which component the host page instantiated
  now,          \* performance.now() / rAF timestamp, in ms
  called,       \* name of the last operation or callback that ran
  threw,        \* TRUE iff that operation let an exception escape
  engine,       \* AsciiVideoEngine instance fields
  emedia,       \* the engine's <video> element (browser side)
  eraf,         \* number of pending requestAnimationFrame callbacks of the engine
  frameLog,     \* timestamps of the most recent _processFrame calls
  sincePause,   \* TRUE from the return of engine.pause() to the next play() call
  destroyed,    \* TRUE once destroy() of the page's component has returned normally
  endedCount,   \* number of end-of-media notifications delivered so far
  retry,        \* progress of a retry after a rejected play(): see RetryStep
  reveal,       \* VideoRevealCanvas instance fields
  rmedia,       \* its <video> element (browser side)
  rcanvas,      \* what its canvas shows: "clear" or "video"
  alphaUsed,    \* globalAlpha, in percent, in effect at its last drawImage
  hero,         \* closure state of initHeroVideoReveal: isRunning, rafId
  hraf,         \* pending requestAnimationFrame callbacks of the hero loop
  pointerActive, \* the pointer source reports isActive
  resizer,      \* resize handling of initHeroVideoReveal: timers, sizes
  tmv,          \* TextMaskedVideo instance fields
  tmedia,       \* its <video> element (browser side)
  traf,         \* pending requestAnimationFrame callbacks of its render loop
  dom,          \* the page as the animator finds it: canvas element, motion preference, layout
  meta,         \* module state of metamorphosis-canvas.js
  timelines,    \* the timelines createTimeline() returned, in order of creation
  flows,        \* the looping animations animate() returned, in order of creation
  mcanvas,      \* what the metamorphosis canvas shows: "clear" or the last rendering
  phaseTrail,   \* the values currentPhase took since the last start
  magnet,       \* module state of magnetic-cursor.js
  calc          \* the last call of a module-level function of
                \* ascii-video-engine.js: its name, arguments and result

engineVars == <<engine, emedia, eraf, frameLog, sincePause>>

histVars == <<destroyed, endedCount, retry>>

revealVars == <<reveal, rmedia, rcanvas, alphaUsed, hero, hraf, pointerActive,
                resizer>>

tmvVars == <<tmv, tmedia, traf>>

metaVars == <<dom, meta, timelines, flows, mcanvas, phaseTrail, magnet>>

NULL == "null"

(***************************************************************************)
(* Bounds of the model.                                                    *)
(***************************************************************************)
MaxSeconds == 2        \* the clock runs over 0 .. MaxSeconds seconds
MaxPlaylist == 2       \* longest play-list
MaxPending == 2        \* play() calls awaiting the media play promise at once
MaxRaf == 2            \* pending requestAnimationFrame callbacks at once
MaxEnded == 3          \* end-of-media notifications delivered in one run
MaxRuns == 2           \* starts of the metamorphosis animator in one run
MaxResizeTicks == 6    \* instants of the hero page's clock after construction
MaxLateTicks == 1      \* instants a due timer may wait for the event loop
MaxBurst == 3          \* resize events not yet followed by a resize of the canvas
MaxPixels == 4         \* pixels of the largest pixel buffer mapped or dithered
MaxEncodePixels == 8   \* pixels of the largest pixel buffer encoded to blocks

MillisPerSecond == 1000

TargetFpsChoices == {1, 2}

\* Instants at which the browser may run a callback.  Timestamps surround
\* every half second (the frame-pacing checks); WholeSeconds is the coarse
\* clock of the control-flow checks.
Timestamps ==
  { s * MillisPerSecond + o : s \in 0..MaxSeconds, o \in {0, 499, 500, 999} }

WholeSeconds == { s * MillisPerSecond : s \in 0..MaxSeconds }

(***************************************************************************)
(* The media element, as far as the components use it.                     *)
(*   src      0 for "no source", otherwise the number of the source       *)
(*   paused   the element's paused attribute                               *)
(*   playing  playback is in progress (the play promise was resolved)      *)
(*   pending  play promises not yet settled                                *)
(*   loop     the loop attribute                                           *)
(*   readyState  0 HAVE_NOTHING, 2 HAVE_CURRENT_DATA, 4 HAVE_ENOUGH_DATA   *)
(*   failed   the current source failed to load (the 'error' event fired)  *)
(*   zeroDims the loaded media has no picture: videoWidth and videoHeight  *)
(*            stay 0 although data is available                            *)
(***************************************************************************)
NewMedia(src, loop) ==
  [src |-> src, paused |-> TRUE, playing |-> FALSE, pending |-> 0, loop |-> loop,
   readyState |-> 0, failed |-> FALSE, zeroDims |-> FALSE]

MediaPlay(m) == [m EXCEPT !.paused = FALSE, !.pending = @ + 1]

MediaPause(m) == [m EXCEPT !.paused = TRUE, !.playing = FALSE]

\* video.src = s; video.load(): the load algorithm stops playback.
MediaLoad(m, s) ==
  [m EXCEPT !.src = s, !.paused = TRUE, !.playing = FALSE,
            !.readyState = 0, !.failed = FALSE, !.zeroDims = FALSE]

\* videoWidth and videoHeight are non-zero: there is a frame and it has a picture.
HasDimensions(m) == m.readyState >= 2 /\ ~m.zeroDims

\* The element obtains data; with the first data the intrinsic size is known.
MediaProgress(m, zero) ==
  [m EXCEPT !.readyState = @ + 2,
            !.zeroDims = IF m.readyState = 0 THEN zero ELSE @]

MediaResolve(m) == [m EXCEPT !.pending = @ - 1, !.playing = ~m.paused]

MediaReject(m) ==
  [m EXCEPT !.pending = @ - 1, !.paused = IF m.playing THEN m.paused ELSE TRUE]

\* Natural end of media: playback stops and 'ended' is delivered.
MediaEnd(m) == [m EXCEPT !.paused = TRUE, !.playing = FALSE]

(***************************************************************************)
(* Module-level functions of ascii-video-engine.js.  A character is its    *)
(* code point.                                                             *)
(***************************************************************************)
Min(a, b) == IF a < b THEN a ELSE b

Max(a, b) == IF a > b THEN a ELSE b

NoCall == [fn |-> "none"]

\* CHAR_SETS, lines 12-46: the character ramps of the luminance mode.
CharSets ==
  [ simple   |-> <<32, 46, 58, 45, 61, 43, 42, 35, 37, 64>>,
    standard |-> <<32, 46, 39, 96, 94, 34, 44, 58, 59, 73, 108, 33, 105, 62, 60,
                  126, 43, 95, 45, 63, 93, 91, 125, 123, 49, 41, 40, 124, 92, 47,
                  116, 102, 106, 114, 120, 110, 117, 118, 99, 122, 88, 89, 85, 74,
                  67, 76, 81, 48, 79, 90, 109, 119, 113, 112, 100, 98, 107, 104,
                  97, 111, 42, 35, 77, 87, 38, 56, 37, 66, 64, 36>>,
    blocks   |-> <<32, 9617, 9618, 9619, 9608>>,
    dense    |-> <<32, 96, 46, 45, 39, 58, 95, 44, 94, 61, 59, 62, 60, 43, 33, 114,
                  99, 42, 47, 122, 63, 115, 76, 84, 118, 41, 74, 55, 40, 124, 70,
                  105, 123, 67, 125, 102, 73, 51, 49, 116, 108, 117, 91, 110, 101,
                  111, 90, 53, 89, 120, 106, 121, 97, 93, 50, 69, 83, 119, 113,
                  107, 80, 54, 104, 57, 100, 52, 86, 112, 79, 71, 98, 85, 65, 75,
                  88, 72, 109, 56, 82, 68, 35, 36, 66, 103, 48, 77, 78, 87, 81, 37,
                  38, 64>> ]

RampNames == DOMAIN CharSets

\* 0.2126 r + 0.7152 g + 0.0722 b, in ten-thousandths.
WeightedSum(r, g, b) == 2126 * r + 7152 * g + 722 * b

\* Channel values the calls are made with.
ChannelValues == {0, 1, 14, 76, 100, 127, 128, 150, 254, 255}

\* The r, g, b over ChannelValues whose exact weighted sum is k + 1/2 and
\* whose sum in double arithmetic, as line 54 evaluates it, lies below it:
\* 15.499999999999998 and 114.49999999999999.
TiesBelow == {<<0, 14, 76>>, <<0, 150, 100>>}

\* Variant of CalculateLuminance: the channels added without weights.
CalculateLuminanceUnweighted(r, g, b) == r + g + b

\* calculateLuminance(), lines 53-55.  Math.round takes the double the sum
\* evaluates to: off the exact sum by a rounding error far below a
\* ten-thousandth, which matters only where the exact sum is k + 1/2 and
\* the double lies below it; for other channel values a sum of k + 1/2 is
\* taken as rounded up.
CalculateLuminance(r, g, b) ==
  LET n == WeightedSum(r, g, b) IN
  IF <<r, g, b>> \in TiesBelow THEN n \div 10000 ELSE (n + 5000) \div 10000

\* Arguments that differ from the arguments of the last call in at most
\* one place.
OneChanged(a, b) == Cardinality({i \in DOMAIN a : a[i] # b[i]}) <= 1

\* A call calculateLuminance(r, g, b); after the first call the calls vary
\* one channel at a time.
CallLuminance ==
  /\ page = "engine"
  /\ \E r, g, b \in ChannelValues :
       /\ calc.fn = "calculateLuminance" => OneChanged(calc.args, <<r, g, b>>)
       /\ calc' = [fn |-> "calculateLuminance", args |-> <<r, g, b>>,
                   out |-> CalculateLuminance(r, g, b)]
  /\ called' = "calculateLuminance"
  /\ threw' = FALSE
  /\ UNCHANGED <<page, now, engineVars, histVars, revealVars, tmvVars, metaVars>>

\* Variant of RampIndex: the index rounded to the nearest, not down.
RampIndexRounded(luminance, len, invert) ==
  LET clamped == Max(0, Min(255, luminance))
      index   == Min((clamped * len + 127) \div 255, len - 1) IN
  IF invert THEN len - 1 - index ELSE index

\* The index charForLuminance() reads, lines 65-71, for a ramp of len >= 2
\* characters.  For the ramp lengths of CHAR_SETS (5, 10, 70, 92) the
\* double (clamped / 255) * len has the floor of the exact quotient.
RampIndex(luminance, len, invert) ==
  LET clamped == Max(0, Min(255, luminance))
      index   == Min((clamped * len) \div 255, len - 1) IN
  IF invert THEN len - 1 - index ELSE index

\* charForLuminance(), lines 60-74; 32 is the space.
CharForLuminance(luminance, characters, invert) ==
  LET len == Len(characters) IN
  IF len = 0 THEN 32
  ELSE IF len = 1 THEN characters[1]
  ELSE characters[RampIndex(luminance, len, invert) + 1]

\* ImageData: width, height and data, four bytes r, g, b, a per pixel in
\* row order; px gives the pixels.
MakeImage(w, h, px) ==
  [ width  |-> w,
    height |-> h,
    data   |-> [i \in 1..(4 * w * h) |-> px[((i - 1) \div 4) + 1][((i - 1) % 4) + 1]] ]

\* The pixel buffers of w x h pixels, each pixel from P.
ImagesOf(w, h, P) == {MakeImage(w, h, px) : px \in [1..(w * h) -> P]}

\* The pixel buffers of up to n pixels, each pixel from P.
ImagesOver(P, n) ==
  UNION { ImagesOf(d[1], d[2], P) :
            d \in {e \in (1..n) \X (1..n) : e[1] * e[2] <= n} }

\* data[idx] of the source, which counts from 0.
At(data, idx) == data[idx + 1]

\* Black, white, mid-grey and a colour, with various alpha.
PixelSamples ==
  {<<0, 0, 0, 255>>, <<255, 255, 255, 255>>, <<128, 128, 128, 0>>,
   <<200, 100, 50, 128>>}

\* mapLuminance(), lines 79-98: the rows, each a sequence of characters.
MapLuminance(imageData, characters, invert) ==
  LET width == imageData.width
      data  == imageData.data IN
  [y \in 1..imageData.height |->
     [x \in 1..width |->
        LET idx == ((y - 1) * width + (x - 1)) * 4 IN
        CharForLuminance(
          CalculateLuminance(At(data, idx), At(data, idx + 1), At(data, idx + 2)),
          characters, invert)]]

\* A call charForLuminance(luminance, characters, invert); after the first
\* call the calls vary the luminance.
CallCharForLuminance ==
  /\ page = "engine"
  /\ calc.fn \in {"none", "charForLuminance"}
  /\ \E name \in RampNames, luminance \in 0..255, invert \in BOOLEAN :
       /\ calc.fn = "charForLuminance"
            => (name = calc.args.ramp /\ invert = calc.args.invert)
       /\ calc' = [fn |-> "charForLuminance",
                   args |-> [luminance |-> luminance, ramp |-> name,
                             invert |-> invert],
                   index |-> RampIndex(luminance, Len(CharSets[name]), invert),
                   out |-> CharForLuminance(luminance, CharSets[name], invert)]
  /\ called' = "charForLuminance"
  /\ threw' = FALSE
  /\ UNCHANGED <<page, now, engineVars, histVars, revealVars, tmvVars, metaVars>>

\* The page's first call is mapLuminance(imageData, characters, invert).
CallMapLuminance ==
  /\ page = "engine"
  /\ calc = NoCall
  /\ \E imageData \in ImagesOver(PixelSamples, MaxPixels), name \in RampNames,
        invert \in BOOLEAN :
       calc' = [fn |-> "mapLuminance",
                args |-> [imageData |-> imageData, ramp |-> name,
                          invert |-> invert],
                out |-> MapLuminance(imageData, CharSets[name], invert)]
  /\ called' = "mapLuminance"
  /\ threw' = FALSE
  /\ UNCHANGED <<page, now, engineVars, histVars, revealVars, tmvVars, metaVars>>

\* BRAILLE_DOT_MAP, lines 109-114: the bit of row dy, column dx.
BrailleDotMap == <<(<<1, 8>>), (<<2, 16>>), (<<4, 32>>), (<<64, 128>>)>>

\* The sub-pixels of a 2x4 block in the order of the loops of lines 141-152.
BraillePositions ==
  [k \in 1..8 |->
     LET dy == (k - 1) \div 2
         dx == (k - 1) % 2 IN
     [dx |-> dx, dy |-> dy, bit |-> BrailleDotMap[dy + 1][dx + 1]]]

\* QUADRANT_CHARS, line 178.
QuadrantChars ==
  <<32, 9624, 9629, 9600, 9622, 9612, 9630, 9627,
     9623, 9626, 9616, 9628, 9604, 9625, 9631, 9608>>

\* Variant of QuadrantPositions: top-right shares the bit of top-left.
QuadrantPositionsSharedBit ==
  << [dx |-> 0, dy |-> 0, bit |-> 1], [dx |-> 1, dy |-> 0, bit |-> 1],
     [dx |-> 0, dy |-> 1, bit |-> 4], [dx |-> 1, dy |-> 1, bit |-> 8] >>

\* positions, lines 189-194.
QuadrantPositions ==
  << [dx |-> 0, dy |-> 0, bit |-> 1], [dx |-> 1, dy |-> 0, bit |-> 2],
     [dx |-> 0, dy |-> 1, bit |-> 4], [dx |-> 1, dy |-> 1, bit |-> 8] >>

\* The bitwise OR of a set of bits, each a single bit of a byte.
OrOfBits(bits) ==
  LET has(b) == IF b \in bits THEN b ELSE 0 IN
  has(1) + has(2) + has(4) + has(8) + has(16) + has(32) + has(64) + has(128)

\* Variant of GetPixelLuminance: a coordinate outside the buffer reads the
\* nearest pixel of the buffer.
GetPixelLuminanceNearest(data, width, height, x, y) ==
  LET cx  == Max(0, Min(width - 1, x))
      cy  == Max(0, Min(height - 1, y))
      idx == (cy * width + cx) * 4 IN
  CalculateLuminance(At(data, idx), At(data, idx + 1), At(data, idx + 2))

\* getPixelLuminance(), lines 119-125.
GetPixelLuminance(data, width, height, x, y) ==
  IF x < 0 \/ x >= width \/ y < 0 \/ y >= height THEN 0
  ELSE LET idx == (y * width + x) * 4 IN
       CalculateLuminance(At(data, idx), At(data, idx + 1), At(data, idx + 2))

\* The pattern of the block at pixel x0, y0: the bits of the sampled
\* positions whose luminance is above the threshold, OR-ed together
\* (lines 141-152 and 196-204).
BlockPattern(imageData, threshold, positions, x0, y0) ==
  OrOfBits({positions[k].bit :
              k \in {j \in DOMAIN positions :
                       GetPixelLuminance(imageData.data, imageData.width,
                                         imageData.height,
                                         x0 + positions[j].dx,
                                         y0 + positions[j].dy) > threshold}})

\* encodeBraille(), lines 130-163; 10240 is U+2800.
EncodeBraille(imageData, threshold) ==
  LET charWidth  == (imageData.width + 1) \div 2
      charHeight == (imageData.height + 3) \div 4 IN
  [charY \in 1..charHeight |->
     [charX \in 1..charWidth |->
        10240 + BlockPattern(imageData, threshold, BraillePositions,
                             (charX - 1) * 2, (charY - 1) * 4)]]

\* encodeBlocks(), lines 172-213.
EncodeBlocks(imageData, threshold) ==
  LET charWidth  == (imageData.width + 1) \div 2
      charHeight == (imageData.height + 1) \div 2 IN
  [charY \in 1..charHeight |->
     [charX \in 1..charWidth |->
        QuadrantChars[BlockPattern(imageData, threshold, QuadrantPositions,
                                   (charX - 1) * 2, (charY - 1) * 2) + 1]]]

\* Pixels at the default threshold and just above it.
TonePixels == {<<128, 128, 128, 255>>, <<129, 129, 129, 255>>}

\* The threshold the engine is configured with by default (line 401).
Thresholds == {128}

Encoders == {"encodeBlocks", "encodeBraille"}

Encode(fn, imageData, threshold) ==
  IF fn = "encodeBlocks" THEN EncodeBlocks(imageData, threshold)
  ELSE EncodeBraille(imageData, threshold)

\* The buffers that differ from imageData in the pixel k, taken from P.
WithPixel(imageData, P) ==
  { [imageData EXCEPT !.data =
       [i \in DOMAIN imageData.data |->
          IF ((i - 1) \div 4) + 1 = k THEN t[((i - 1) % 4) + 1]
          ELSE imageData.data[i]]] :
      k \in 1..(imageData.width * imageData.height), t \in P }

\* A call encodeBlocks(imageData, threshold) or encodeBraille(imageData,
\* threshold); after the first call the calls vary one pixel at a time.
CallEncode ==
  /\ page = "engine"
  /\ \E fn \in Encoders, threshold \in Thresholds :
       \E imageData \in IF calc = NoCall
                          THEN ImagesOver(TonePixels, MaxEncodePixels)
                          ELSE WithPixel(calc.args.imageData, TonePixels) :
         /\ calc # NoCall => (fn = calc.fn /\ threshold = calc.args.threshold)
         /\ calc' = [fn |-> fn,
                     args |-> [imageData |-> imageData, threshold |-> threshold],
                     out |-> Encode(fn, imageData, threshold)]
         /\ called' = fn
  /\ threw' = FALSE
  /\ UNCHANGED <<page, now, engineVars, histVars, revealVars, tmvVars, metaVars>>

\* The page's first call is getPixelLuminance(data, width, height, x, y),
\* for a coordinate inside the buffer or next to it.
CallGetPixelLuminance ==
  /\ page = "engine"
  /\ calc = NoCall
  /\ \E imageData \in ImagesOver(TonePixels, MaxPixels) :
       \E x \in (0 - 1)..imageData.width, y \in (0 - 1)..imageData.height :
         calc' = [fn |-> "getPixelLuminance",
                  args |-> [imageData |-> imageData, x |-> x, y |-> y],
                  out |-> GetPixelLuminance(imageData.data, imageData.width,
                                            imageData.height, x, y)]
  /\ called' = "getPixelLuminance"
  /\ threw' = FALSE
  /\ UNCHANGED <<page, now, engineVars, histVars, revealVars, tmvVars, metaVars>>

\* The byte a Uint8ClampedArray element holds after the assignment of
\* Math.max(0, Math.min(255, n / d)): the nearest integer, the even one of
\* two equally near.
StoreByte(n, d) ==
  IF n <= 0 THEN 0
  ELSE IF n >= 255 * d THEN 255
  ELSE LET q == n \div d
           r == n % d IN
       IF 2 * r < d THEN q
       ELSE IF 2 * r > d THEN q + 1
       ELSE IF q % 2 = 0 THEN q ELSE q + 1

\* Variant of Quantize: four grey levels.
QuantizeFourLevels(lum) == 85 * (lum \div 64)

\* lum > 128 ? 255 : 0, lines 258 and 306.
Quantize(lum) == IF lum > 128 THEN 255 ELSE 0

\* The neighbours error is distributed to, with the sixteenths each
\* receives, lines 283-286.
FloydSteinbergNeighbours ==
  << [dx |-> 1, dy |-> 0, factor |-> 7], [dx |-> 0 - 1, dy |-> 1, factor |-> 3],
     [dx |-> 0, dy |-> 1, factor |-> 5], [dx |-> 1, dy |-> 1, factor |-> 1] >>

\* The neighbours that each receive an eighth of the error, lines 326-331.
AtkinsonNeighbours ==
  << [dx |-> 1, dy |-> 0, factor |-> 1], [dx |-> 2, dy |-> 0, factor |-> 1],
     [dx |-> 0 - 1, dy |-> 1, factor |-> 1], [dx |-> 0, dy |-> 1, factor |-> 1],
     [dx |-> 1, dy |-> 1, factor |-> 1], [dx |-> 0, dy |-> 2, factor |-> 1] >>

\* distribute(dx, dy, factor), lines 271-281 and 314-324: err[c] * factor / den
\* is added to channel c of the neighbour, if there is one.  The sums are
\* exact in double arithmetic for sixteenths; for Atkinson's twenty-fourths
\* the double is off only where the sum is not half-way between integers.
Distribute(data, width, height, x, y, n, err, den) ==
  LET nx == x + n.dx
      ny == y + n.dy IN
  IF nx >= 0 /\ nx < width /\ ny >= 0 /\ ny < height
    THEN LET nidx == (ny * width + nx) * 4 IN
         [data EXCEPT ![nidx + 1] = StoreByte(den * @ + err[1] * n.factor, den),
                      ![nidx + 2] = StoreByte(den * @ + err[2] * n.factor, den),
                      ![nidx + 3] = StoreByte(den * @ + err[3] * n.factor, den)]
    ELSE data

\* The distribute calls for one pixel, the first k of them.
RECURSIVE DistributeAll(_, _, _, _, _, _, _, _, _)
DistributeAll(data, width, height, x, y, neighbours, err, den, k) ==
  IF k = 0 THEN data
  ELSE Distribute(DistributeAll(data, width, height, x, y, neighbours, err, den, k - 1),
                  width, height, x, y, neighbours[k], err, den)

\* The body of the loops of floydSteinbergDither (lines 251-287) and of
\* atkinsonDither (lines 299-332) for the pixel x, y.
DiffusePixel(algorithm, data, width, height, x, y) ==
  LET idx    == (y * width + x) * 4
      oldR   == At(data, idx)
      oldG   == At(data, idx + 1)
      oldB   == At(data, idx + 2)
      newVal == Quantize(CalculateLuminance(oldR, oldG, oldB))
      data1  == [data EXCEPT ![idx + 1] = newVal, ![idx + 2] = newVal,
                             ![idx + 3] = newVal] IN
  IF algorithm = "floyd-steinberg"
    THEN DistributeAll(data1, width, height, x, y, FloydSteinbergNeighbours,
                       <<oldR - newVal, oldG - newVal, oldB - newVal>>, 16,
                       Len(FloydSteinbergNeighbours))
    ELSE LET err3 == (oldR + oldG + oldB) - 3 * newVal IN   \* err, in thirds
         DistributeAll(data1, width, height, x, y, AtkinsonNeighbours,
                       <<err3, err3, err3>>, 24, Len(AtkinsonNeighbours))

\* The loops over y and x, from the pixel number k on.
RECURSIVE DiffuseFrom(_, _, _, _, _)
DiffuseFrom(algorithm, data, width, height, k) ==
  IF k >= width * height THEN data
  ELSE DiffuseFrom(algorithm,
                   DiffusePixel(algorithm, data, width, height, k % width, k \div width),
                   width, height, k + 1)

\* floydSteinbergDither(), lines 245-289
FloydSteinbergDither(imageData) ==
  [ width  |-> imageData.width,
    height |-> imageData.height,
    data   |-> DiffuseFrom("floyd-steinberg", imageData.data, imageData.width,
                           imageData.height, 0) ]

\* atkinsonDither(), lines 294-337
AtkinsonDither(imageData) ==
  [ width  |-> imageData.width,
    height |-> imageData.height,
    data   |-> DiffuseFrom("atkinson", imageData.data, imageData.width,
                           imageData.height, 0) ]

\* bayer4, lines 347-352
Bayer4 ==
  <<(<<0, 8, 2, 10>>), (<<12, 4, 14, 6>>), (<<3, 11, 1, 9>>), (<<15, 7, 13, 5>>)>>

\* bayerDither(), lines 342-369: lum > (bayer4[y % 4][x % 4] / 16) * 255.
BayerDither(imageData) ==
  LET width == imageData.width
      data  == imageData.data IN
  [ width  |-> width,
    height |-> imageData.height,
    data   |-> [i \in DOMAIN data |->
                  LET k   == (i - 1) \div 4
                      x   == k % width
                      y   == k \div width
                      idx == k * 4
                      lum == CalculateLuminance(At(data, idx), At(data, idx + 1),
                                                At(data, idx + 2)) IN
                  IF (i - 1) % 4 = 3 THEN data[i]
                  ELSE IF 16 * lum > Bayer4[(y % 4) + 1][(x % 4) + 1] * 255
                         THEN 255 ELSE 0] ]

Algorithms == {"floyd-steinberg", "atkinson", "bayer"}

\* applyDithering(), lines 374-385
ApplyDithering(imageData, algorithm) ==
  CASE algorithm = "floyd-steinberg" -> FloydSteinbergDither(imageData)
    [] algorithm = "atkinson" -> AtkinsonDither(imageData)
    [] algorithm = "bayer" -> BayerDither(imageData)
    [] OTHER -> imageData

\* The page's first call is applyDithering(imageData, algorithm).
CallDither ==
  /\ page = "engine"
  /\ calc = NoCall
  /\ \E imageData \in ImagesOver(PixelSamples, MaxPixels), algorithm \in Algorithms :
       calc' = [fn |-> "applyDithering",
                args |-> [imageData |-> imageData, algorithm |-> algorithm],
                out |-> ApplyDithering(imageData, algorithm)]
  /\ called' = "applyDithering"
  /\ threw' = FALSE
  /\ UNCHANGED <<page, now, engineVars, histVars, revealVars, tmvVars, metaVars>>

(***************************************************************************)
(* AsciiVideoEngine                                                        *)
(***************************************************************************)
NewEngine(n, fps) ==
  [ videoPlaylist     |-> n,          \* number of sources in the play-list
    targetFps         |-> fps,
    frameInterval     |-> MillisPerSecond \div fps,
    video             |-> "video",
    canvas            |-> "canvas",
    outputCanvas      |-> "attached",
    currentVideoIndex |-> 0,
    isPlaying         |-> FALSE,
    rafId             |-> NULL,       \* NULL, "live" (a pending callback) or "stale"
    lastFrameTime     |-> 0 ]

\* An outcome of a method body: the new object states and whether it threw.
Outcome(e, m, q, t) == [engine |-> e, media |-> m, raf |-> q, threw |-> t]

\* pause(), lines 720-727
PauseBody(e, m, q) ==
  LET e1 == [e EXCEPT !.isPlaying = FALSE] IN
  IF e1.video = NULL
    THEN Outcome(e1, m, q, TRUE)               \* this.video.pause(): TypeError
    ELSE IF e1.rafId # NULL
           THEN Outcome([e1 EXCEPT !.rafId = NULL], MediaPause(m),
                        IF e1.rafId = "live" THEN q - 1 ELSE q, FALSE)
           ELSE Outcome(e1, MediaPause(m), q, FALSE)

\* play() up to the await, lines 702-706
PlayBody(e, m, q) ==
  IF e.isPlaying THEN Outcome(e, m, q, FALSE)
  ELSE IF e.video = NULL
         THEN Outcome(e, m, q, FALSE)          \* TypeError caught by the try block
         ELSE Outcome(e, MediaPlay(m), q, FALSE)

\* Variant of PlayRejectedBody: play() without its try/catch.
PlayRejectedUncaught(e, m, q) == Outcome(e, MediaReject(m), q, TRUE)

\* The catch block of play(), lines 712-714: the rejection is logged.
PlayRejectedBody(e, m, q) == Outcome(e, MediaReject(m), q, FALSE)

\* Variant of FrameDue: _animate without the elapsed-time test.
FrameDueUnthrottled(e, timestamp) == timestamp - e.lastFrameTime >= 0

\* _animate(timestamp) up to the frame decision, lines 686-693
FrameDue(e, timestamp) == timestamp - e.lastFrameTime >= e.frameInterval

\* Variant of AnimateTime: the last frame time advanced by one interval per
\* processed frame, which queues the frames of a gap.
AnimateTimeQueued(e, timestamp) ==
  IF timestamp - e.lastFrameTime >= e.frameInterval
    THEN e.lastFrameTime + e.frameInterval
    ELSE e.lastFrameTime

AnimateTime(e, timestamp) ==
  LET elapsed == timestamp - e.lastFrameTime IN
  IF elapsed >= e.frameInterval
    THEN timestamp - (elapsed % e.frameInterval)
    ELSE e.lastFrameTime

\* The frame log keeps the timestamps of the last targetFps + 2 frames.
LogFrame(log, fps, t) ==
  LET l == Append(log, t) IN
  IF Len(l) > fps + 2 THEN Tail(l) ELSE l

\* Variant of NextVideoIndex: advancing without the modulo.
NextVideoIndexNoWrap(i, n) == i + 1

\* _nextVideo(), lines 479-486
NextVideoIndex(i, n) == (i + 1) % n

NextVideoBody(e, m, q) ==
  LET e1 == [e EXCEPT !.currentVideoIndex = NextVideoIndex(e.currentVideoIndex,
                                                           e.videoPlaylist)] IN
  IF e1.video = NULL
    THEN Outcome(e1, m, q, TRUE)               \* this.video.src on null: TypeError
    ELSE LET m1 == MediaLoad(m, e1.currentVideoIndex + 1) IN
         Outcome(e1, IF e1.isPlaying THEN MediaPlay(m1) ELSE m1, q, FALSE)

\* destroy(), lines 767-789
DestroyBody(e, m, q) ==
  LET o == PauseBody(e, m, q) IN
  IF o.threw THEN o
  ELSE Outcome([o.engine EXCEPT !.video = NULL, !.canvas = NULL,
                                !.outputCanvas = NULL],
               MediaLoad(o.media, 0), o.raf, FALSE)

\* options.width || 120, line 396
DefaultWidth == 120

\* this.video.videoWidth || 1920 and this.video.videoHeight || 1080,
\* lines 492-493
DefaultVideoWidth == 1920

DefaultVideoHeight == 1080

\* Values of options.width (0: not given), of options.characterSet and
\* intrinsic sizes of the video (<<0, 0>>: no metadata yet).
WidthOptions == {0, 1, 2, 3, 7, 8, 16, 120}

CharacterSetOptions == {"braille", "quadrants", "standard", "simple"}

VideoSizes == {<<0, 0>>, <<1920, 1080>>, <<640, 480>>, <<1080, 1920>>, <<4096, 128>>}

\* Variant of CalculateDimensions: every character set takes the rounded
\* height of the luminance ramps.
CalculateDimensionsRounded(width, characterSet, videoWidth, videoHeight) ==
  LET vw == IF videoWidth = 0 THEN DefaultVideoWidth ELSE videoWidth
      vh == IF videoHeight = 0 THEN DefaultVideoHeight ELSE videoHeight IN
  [width |-> width, height |-> (width * vh + vw) \div (2 * vw)]

\* _calculateDimensions(), lines 491-518, for this.width = width.  With
\* videoAspect = vw / vh and charAspect = 0.5 the heights are
\* floor(aw * vh / (8 vw)) * 4, floor(aw * vh / (4 vw)) * 2 and
\* round(width * vh / (2 vw)); on the widths and sizes used here the double
\* arithmetic of the code yields these exact values.
CalculateDimensions(width, characterSet, videoWidth, videoHeight) ==
  LET vw == IF videoWidth = 0 THEN DefaultVideoWidth ELSE videoWidth
      vh == IF videoHeight = 0 THEN DefaultVideoHeight ELSE videoHeight
      aw == (width \div 2) * 2 IN
  IF characterSet = "braille"
    THEN [width |-> aw, height |-> ((aw * vh) \div (8 * vw)) * 4]
  ELSE IF characterSet = "quadrants"
    THEN [width |-> aw, height |-> ((aw * vh) \div (4 * vw)) * 2]
  ELSE [width |-> width, height |-> (width * vh + vw) \div (2 * vw)]

\* _processFrame() up to the extraction of the pixels, lines 523-536, on an
\* engine constructed with the given width and character set:
\* getImageData(0, 0, sw, sh) throws IndexSizeError if sw or sh is 0.
ProcessFrameExtract ==
  /\ page = "engine"
  /\ calc.fn \in {"none", "processFrame"}
  /\ \E w \in WidthOptions, cs \in CharacterSetOptions, v \in VideoSizes :
       LET width == IF w = 0 THEN DefaultWidth ELSE w
           dims  == CalculateDimensions(width, cs, v[1], v[2]) IN
       /\ calc' = [fn   |-> "processFrame",
                   args |-> [width |-> width, characterSet |-> cs,
                             videoWidth |-> v[1], videoHeight |-> v[2]],
                   out  |-> dims]
       /\ threw' = (dims.width = 0 \/ dims.height = 0)
  /\ called' = "processFrame"
  /\ UNCHANGED <<page, now, engineVars, histVars, revealVars, tmvVars, metaVars>>

\* Monitor of "a rejected play() can be retried": after a rejection that
\* leaves no promise pending, a new play() call, then its resolution.
RetryStep(r, op, m) ==
  CASE op = "playRejected" /\ m.pending = 0 /\ r = "none" -> "rejected"
    [] op = "play" /\ r = "rejected" /\ m.pending = 1 -> "retrying"
    [] op = "playResolved" /\ r = "retrying" -> "succeeded"
    [] OTHER -> r

EnginePlay ==
  /\ page = "engine"
  /\ emedia.pending < MaxPending
  /\ LET o == PlayBody(engine, emedia, eraf) IN
       /\ engine' = o.engine
       /\ emedia' = o.media
       /\ eraf' = o.raf
       /\ threw' = o.threw
  /\ called' = "play"
  /\ sincePause' = FALSE
  /\ retry' = RetryStep(retry, "play", emedia')
  /\ UNCHANGED <<page, calc, now, frameLog, destroyed, endedCount, revealVars, tmvVars, metaVars>>

\* The continuation of play() after `await this.video.play()` resolved,
\* lines 707-711, with the direct call of _animate(performance.now()).  A
\* promise whose resolution the element had queued when pause() or load()
\* was called is still resolved, so the continuation may follow destroy().
EnginePlayResolved ==
  /\ page = "engine"
  /\ emedia.pending > 0
  /\ eraf < MaxRaf
  /\ emedia' = MediaResolve(emedia)
  /\ engine' = [engine EXCEPT !.isPlaying = TRUE,
                              !.lastFrameTime = now,
                              !.rafId = "live"]
  /\ eraf' = eraf + 1
  /\ called' = "playResolved"
  /\ threw' = FALSE
  /\ retry' = RetryStep(retry, "playResolved", emedia')
  /\ UNCHANGED <<page, calc, now, frameLog, sincePause, destroyed, endedCount, revealVars, tmvVars, metaVars>>

\* The media element rejects the promise play() awaits.
EnginePlayRejected ==
  /\ page = "engine"
  /\ emedia.pending > 0
  /\ LET o == PlayRejectedBody(engine, emedia, eraf) IN
       /\ engine' = o.engine
       /\ emedia' = o.media
       /\ eraf' = o.raf
       /\ threw' = o.threw
  /\ called' = "playRejected"
  /\ retry' = RetryStep(retry, "playRejected", emedia')
  /\ UNCHANGED <<page, calc, now, frameLog, sincePause, destroyed, endedCount, revealVars, tmvVars, metaVars>>

EnginePause ==
  /\ page = "engine"
  /\ LET o == PauseBody(engine, emedia, eraf) IN
       /\ engine' = o.engine
       /\ emedia' = o.media
       /\ eraf' = o.raf
       /\ threw' = o.threw
       /\ sincePause' = ~o.threw
  /\ called' = "pause"
  /\ UNCHANGED <<page, calc, now, frameLog, histVars, revealVars, tmvVars, metaVars>>

\* toggle(), lines 732-738
EngineToggle ==
  /\ page = "engine"
  /\ emedia.pending < MaxPending
  /\ LET o == IF engine.isPlaying THEN PauseBody(engine, emedia, eraf)
                                  ELSE PlayBody(engine, emedia, eraf) IN
       /\ engine' = o.engine
       /\ emedia' = o.media
       /\ eraf' = o.raf
       /\ threw' = o.threw
       /\ sincePause' = (engine.isPlaying /\ ~o.threw)
  /\ called' = "toggle"
  /\ retry' = IF engine.isPlaying THEN retry ELSE RetryStep(retry, "play", emedia')
  /\ UNCHANGED <<page, calc, now, frameLog, destroyed, endedCount, revealVars, tmvVars, metaVars>>

\* The 'ended' listener registered in _init(), lines 441-444: the media
\* element reached the end of the current source.
EngineEnded ==
  /\ page = "engine"
  /\ engine.videoPlaylist > 0
  /\ emedia.playing /\ ~emedia.loop
  /\ endedCount < MaxEnded
  /\ emedia.pending < MaxPending
  /\ LET o == NextVideoBody(engine, MediaEnd(emedia), eraf) IN
       /\ engine' = o.engine
       /\ emedia' = o.media
       /\ eraf' = o.raf
       /\ threw' = o.threw
  /\ endedCount' = endedCount + 1
  /\ called' = "ended"
  /\ UNCHANGED <<page, calc, now, frameLog, sincePause, destroyed, retry, revealVars, tmvVars, metaVars>>

EngineDestroy ==
  /\ page = "engine"
  /\ LET o == DestroyBody(engine, emedia, eraf) IN
       /\ engine' = o.engine
       /\ emedia' = o.media
       /\ eraf' = o.raf
       /\ threw' = o.threw
       /\ destroyed' = (destroyed \/ ~o.threw)
  /\ called' = "destroy"
  /\ UNCHANGED <<page, calc, now, frameLog, sincePause, endedCount, retry, revealVars, tmvVars, metaVars>>

\* A requestAnimationFrame callback runs _animate(now), lines 686-697.
\* ref = TRUE: the callback is the one this.rafId names.
EngineAnimate(ref) ==
  /\ page = "engine"
  /\ eraf > 0
  /\ IF ref THEN engine.rafId = "live"
            ELSE eraf > (IF engine.rafId = "live" THEN 1 ELSE 0)
  /\ called' = "animate"
  /\ IF ~engine.isPlaying
       THEN /\ engine' = [engine EXCEPT !.rafId = IF ref THEN "stale" ELSE @]
            /\ eraf' = eraf - 1
            /\ threw' = FALSE
            /\ UNCHANGED frameLog
       ELSE IF FrameDue(engine, now)
         THEN IF engine.canvas = NULL
           THEN \* _processFrame after destroy(): this.video.videoWidth and
                \* this.canvas.width on null, TypeError
                /\ engine' = [engine EXCEPT !.lastFrameTime = AnimateTime(engine, now),
                                            !.rafId = IF ref THEN "stale" ELSE @]
                /\ eraf' = eraf - 1
                /\ threw' = TRUE
                /\ UNCHANGED frameLog
           ELSE /\ engine' = [engine EXCEPT !.lastFrameTime = AnimateTime(engine, now),
                                            !.rafId = "live"]
                /\ frameLog' = LogFrame(frameLog, engine.targetFps, now)
                /\ threw' = FALSE
                /\ UNCHANGED eraf
         ELSE /\ engine' = [engine EXCEPT !.rafId = "live"]
              /\ threw' = FALSE
              /\ UNCHANGED <<eraf, frameLog>>
  /\ UNCHANGED <<page, calc, now, emedia, sincePause, histVars, revealVars, tmvVars, metaVars>>

(***************************************************************************)
(* VideoRevealCanvas and the hero video reveal handle                      *)
(***************************************************************************)
\* Source numbers of a canvas without a play-list: 1 is videoSrc (WebM),
\* 2 is fallbackSrc (MP4).  With a play-list, k is the k-th list entry.

\* _createVideo(), lines 70-85: the source chosen at construction.
FirstSource(n, hasVideoSrc, hasFallback, canPlayWebM) ==
  IF n > 0 THEN 1
  ELSE IF canPlayWebM /\ hasVideoSrc THEN 1
  ELSE IF hasFallback THEN 2
  ELSE IF hasVideoSrc THEN 1
  ELSE 0

\* constructor, lines 20-44
\* options.opacity ?? 0.9, line 26, in percent: the option as given, the
\* default if it is undefined.
DefaultOpacity == 90

\* The default initHeroVideoReveal passes on, src/unnamed/part_001 line 50.
HeroDefaultOpacity == 95

\* setTimeout(handleResize, 100), src/unnamed/part_001 line 87 (ms).
ResizeDelay == 100

\* The hero page's clock advances in steps of half the delay.
ResizeTick == ResizeDelay \div 2

ResizeInstants == {ResizeTick * k : k \in 0..MaxResizeTicks}

\* Widths the hero section is laid out at (CSS pixels).
HeroWidths == {800, 1000}

\* The resize handling after initHeroVideoReveal returned: handleResize()
\* ran once (line 81), no timer is set, onResize is registered.  lastEvent,
\* appliedSince (resizes of the canvas since lastEvent), burst (events since
\* the last resize of the canvas) and lastBurst record the history.
NewResizer(w) ==
  [ timers        |-> {},
    resizeTimeout |-> 0,          \* undefined
    listening     |-> TRUE,
    layout        |-> w,
    applied       |-> w,
    lastEvent     |-> 0 - 1,      \* none yet
    appliedSince  |-> 0,
    burst         |-> 0,
    lastBurst     |-> 0 ]

\* Opacity options a caller may pass: none, or a number in or out of 0..1.
OpacityOptions ==
  {[given |-> FALSE, value |-> 0]}
    \cup {[given |-> TRUE, value |-> v] : v \in {0 - 50, 0, 50, 100, 150}}

OpacityOption(given, value) == IF given THEN value ELSE DefaultOpacity

\* The setter of ctx.globalAlpha: a value outside 0..1 is ignored.
SetGlobalAlpha(current, value) == IF value \in 0..100 THEN value ELSE current

\* render(), lines 238-246: ctx.save(); ctx.globalAlpha = this.opacity;
\* drawImage.  The alpha in effect at drawImage; a saved context starts at 1.
RenderAlpha(r, used, isActive) ==
  IF r.ctx = NULL \/ r.canvas = NULL \/ ~isActive \/ ~r.isVideoReady THEN used
  ELSE SetGlobalAlpha(100, r.opacity)

\* fallbackSrc is "none", or the option as written: a "relative" or an
\* "absolute" URL of source 2.
NewReveal(n, fallbackSrc, opacity) ==
  [ videoPlaylist     |-> n,
    opacity           |-> opacity,
    usePlaylist       |-> n > 0,
    fallbackSrc       |-> fallbackSrc,
    video             |-> "video",
    canvas            |-> "canvas",
    ctx               |-> "ctx",
    isVideoReady      |-> FALSE,
    isPlaying         |-> FALSE,
    currentVideoIndex |-> 0 ]

ROutcome(r, m, t) == [reveal |-> r, media |-> m, threw |-> t]

\* play() up to the await, lines 157-161
RevealPlayBody(r, m) ==
  IF r.isPlaying \/ r.video = NULL THEN ROutcome(r, m, FALSE)
  ELSE ROutcome(r, MediaPlay(m), FALSE)

\* pause(), lines 171-175
RevealPauseBody(r, m) ==
  IF ~r.isPlaying \/ r.video = NULL THEN ROutcome(r, m, FALSE)
  ELSE ROutcome([r EXCEPT !.isPlaying = FALSE], MediaPause(m), FALSE)

\* _advanceToNextVideo(), lines 115-126
RevealAdvanceBody(r, m) ==
  LET r1 == [r EXCEPT !.currentVideoIndex = (r.currentVideoIndex + 1) % r.videoPlaylist] IN
  IF r1.video = NULL
    THEN ROutcome(r1, m, TRUE)                 \* this.video.src on null: TypeError
    ELSE LET m1 == MediaLoad(m, r1.currentVideoIndex + 1) IN
         ROutcome(r1, IF r1.isPlaying THEN MediaPlay(m1) ELSE m1, FALSE)

\* destroy(), lines 276-292
RevealDestroyBody(r, m) ==
  LET o == RevealPauseBody(r, m) IN
  ROutcome([o.reveal EXCEPT !.video = NULL, !.canvas = NULL, !.ctx = NULL,
                            !.isVideoReady = FALSE],
           IF o.reveal.video # NULL THEN MediaLoad(o.media, 0) ELSE o.media,
           FALSE)

\* this.video.src !== this.fallbackSrc, line 94: the src getter returns the
\* resolved absolute URL, the option is compared as it was written.
SrcIsFallback(r, m) == m.src = 2 /\ r.fallbackSrc = "absolute"

\* ctx.drawImage(video, ...): the browser draws nothing while the element
\* has no current frame (readyState below HAVE_CURRENT_DATA) or the source
\* rectangle, the intrinsic size, is empty.
DrawImage(m) == IF HasDimensions(m) THEN "video" ELSE "clear"

\* render(mouseX, mouseY, isActive), lines 226-271
RenderBody(r, m, shown, isActive) ==
  IF r.ctx = NULL \/ r.canvas = NULL THEN shown
  ELSE IF ~isActive \/ ~r.isVideoReady THEN "clear"
  ELSE DrawImage(m)

RevealPlay ==
  /\ page = "reveal"
  /\ rmedia.pending < MaxPending
  /\ LET o == RevealPlayBody(reveal, rmedia) IN
       /\ reveal' = o.reveal
       /\ rmedia' = o.media
       /\ threw' = o.threw
  /\ called' = "play"
  /\ retry' = RetryStep(retry, "play", rmedia')
  /\ UNCHANGED <<page, calc, now, engineVars, destroyed, endedCount,
                 rcanvas, alphaUsed, hero, hraf, pointerActive, resizer, tmvVars,
                 metaVars>>

\* The continuation of play() after the await resolved, line 162.
RevealPlayResolved ==
  /\ page = "reveal"
  /\ rmedia.pending > 0
  /\ rmedia.src # 0 /\ ~rmedia.failed
  /\ rmedia' = MediaResolve(rmedia)
  /\ reveal' = [reveal EXCEPT !.isPlaying = TRUE]
  /\ called' = "playResolved"
  /\ threw' = FALSE
  /\ retry' = RetryStep(retry, "playResolved", rmedia')
  /\ UNCHANGED <<page, calc, now, engineVars, destroyed, endedCount,
                 rcanvas, alphaUsed, hero, hraf, pointerActive, resizer, tmvVars,
                 metaVars>>

\* The catch block of play(), lines 163-165.
RevealPlayRejected ==
  /\ page = "reveal"
  /\ rmedia.pending > 0
  /\ rmedia' = MediaReject(rmedia)
  /\ called' = "playRejected"
  /\ threw' = FALSE
  /\ retry' = RetryStep(retry, "playRejected", rmedia')
  /\ UNCHANGED <<page, calc, now, engineVars, destroyed, endedCount,
                 reveal, rcanvas, alphaUsed, hero, hraf, pointerActive, resizer, tmvVars,
                 metaVars>>

RevealPause ==
  /\ page = "reveal"
  /\ LET o == RevealPauseBody(reveal, rmedia) IN
       /\ reveal' = o.reveal
       /\ rmedia' = o.media
       /\ threw' = o.threw
  /\ called' = "pause"
  /\ UNCHANGED <<page, calc, now, engineVars, histVars, rcanvas, alphaUsed, hero, hraf, pointerActive, resizer, tmvVars,
                 metaVars>>

\* The media element loads the current source; reaching HAVE_ENOUGH_DATA
\* fires 'canplaythrough', whose listener (lines 87-89) sets isVideoReady.
RevealMediaProgress ==
  /\ page = "reveal"
  /\ rmedia.src # 0 /\ ~rmedia.failed /\ rmedia.readyState < 4
  /\ \E zero \in BOOLEAN :
       /\ rmedia.readyState # 0 => ~zero
       /\ rmedia' = MediaProgress(rmedia, zero)
  /\ reveal' = [reveal EXCEPT !.isVideoReady =
                  IF rmedia'.readyState = 4 THEN TRUE ELSE @]
  /\ called' = "mediaProgress"
  /\ threw' = FALSE
  /\ UNCHANGED <<page, calc, now, engineVars, histVars, rcanvas, alphaUsed, hero, hraf, pointerActive, resizer, tmvVars,
                 metaVars>>

\* The 'error' listener, lines 91-98: the current source failed.
RevealMediaError ==
  /\ page = "reveal"
  /\ rmedia.src # 0 /\ ~rmedia.failed
  /\ LET m1 == [rmedia EXCEPT !.failed = TRUE, !.readyState = 0,
                              !.playing = FALSE, !.paused = TRUE] IN
       rmedia' = IF ~reveal.usePlaylist /\ ~SrcIsFallback(reveal, rmedia)
                      /\ reveal.fallbackSrc # "none"
                   THEN MediaLoad(m1, 2)
                   ELSE m1
  /\ called' = "mediaError"
  /\ threw' = FALSE
  /\ UNCHANGED <<page, calc, now, engineVars, histVars, reveal, rcanvas, alphaUsed, hero, hraf,
                 pointerActive, resizer, tmvVars,
                 metaVars>>

\* The 'ended' listener, lines 101-105.
RevealEnded ==
  /\ page = "reveal"
  /\ reveal.usePlaylist
  /\ rmedia.playing /\ ~rmedia.loop
  /\ endedCount < MaxEnded
  /\ rmedia.pending < MaxPending
  /\ LET o == RevealAdvanceBody(reveal, MediaEnd(rmedia)) IN
       /\ reveal' = o.reveal
       /\ rmedia' = o.media
       /\ threw' = o.threw
  /\ endedCount' = endedCount + 1
  /\ called' = "ended"
  /\ UNCHANGED <<page, calc, now, engineVars, destroyed, retry, rcanvas, alphaUsed, hero, hraf,
                 pointerActive, resizer, tmvVars,
                 metaVars>>

RevealDestroy ==
  /\ page = "reveal"
  /\ LET o == RevealDestroyBody(reveal, rmedia) IN
       /\ reveal' = o.reveal
       /\ rmedia' = o.media
       /\ threw' = o.threw
       /\ destroyed' = (destroyed \/ ~o.threw)
  /\ called' = "destroy"
  /\ UNCHANGED <<page, calc, now, engineVars, endedCount, retry, rcanvas, alphaUsed, hero, hraf,
                 pointerActive, resizer, tmvVars,
                 metaVars>>

\* The pointer source: the pointer enters or leaves the tracked region.
PointerMove ==
  /\ page = "reveal"
  /\ pointerActive' = ~pointerActive
  /\ called' = "pointerMove"
  /\ threw' = FALSE
  /\ UNCHANGED <<page, calc, now, engineVars, histVars,
                 reveal, rmedia, rcanvas, alphaUsed, hero, hraf, resizer, tmvVars,
                 metaVars>>

\* animate() of initHeroVideoReveal as a requestAnimationFrame callback.
\* ref = TRUE: the callback is the one rafId names.
HeroAnimate(ref) ==
  /\ page = "reveal"
  /\ hraf > 0
  /\ IF ref THEN hero.rafId = "live"
            ELSE hraf > (IF hero.rafId = "live" THEN 1 ELSE 0)
  /\ rmedia.pending < MaxPending
  /\ called' = "animate"
  /\ threw' = FALSE
  /\ IF ~hero.isRunning
       THEN /\ hero' = [hero EXCEPT !.rafId = IF ref THEN "stale" ELSE @]
            /\ hraf' = hraf - 1
            /\ UNCHANGED <<reveal, rmedia, rcanvas, alphaUsed, retry>>
       ELSE /\ rcanvas' = RenderBody(reveal, rmedia, rcanvas, pointerActive)
            /\ alphaUsed' = RenderAlpha(reveal, alphaUsed, pointerActive)
            /\ LET o == IF pointerActive /\ ~reveal.isPlaying
                          THEN RevealPlayBody(reveal, rmedia)
                          ELSE ROutcome(reveal, rmedia, FALSE) IN
                 /\ reveal' = o.reveal
                 /\ rmedia' = o.media
            /\ retry' = IF pointerActive /\ ~reveal.isPlaying
                          THEN RetryStep(retry, "play", rmedia') ELSE retry
            /\ hero' = [hero EXCEPT !.rafId = "live"]
            /\ UNCHANGED hraf
  /\ UNCHANGED <<page, calc, now, engineVars, destroyed, endedCount, pointerActive, resizer, tmvVars,
                 metaVars>>

\* destroy() of the handle returned by initHeroVideoReveal.
HeroDestroy ==
  /\ page = "reveal"
  \* cancelAnimationFrame(rafId): the id stays in rafId but names no callback
  /\ hero' = [hero EXCEPT !.isRunning = FALSE,
                          !.rafId = IF @ = "live" THEN "stale" ELSE @]
  /\ hraf' = IF hero.rafId = "live" THEN hraf - 1 ELSE hraf
  /\ LET o == RevealDestroyBody(reveal, rmedia) IN
       /\ reveal' = o.reveal
       /\ rmedia' = o.media
       /\ threw' = o.threw
  \* window.removeEventListener('resize', onResize); resizeTimeout stays set
  /\ resizer' = [resizer EXCEPT !.listening = FALSE]
  /\ destroyed' = TRUE
  /\ called' = "heroDestroy"
  /\ UNCHANGED <<page, calc, now, engineVars, endedCount, retry, rcanvas, alphaUsed,
                 pointerActive, tmvVars, metaVars>>

\* handleResize(), src/unnamed/part_001 lines 77-80, with
\* VideoRevealCanvas.resize(), video-reveal.js lines 141-152.
HandleResize(r, rz) ==
  IF r.canvas = NULL THEN [resizer |-> rz, threw |-> TRUE]
  ELSE [resizer |-> [rz EXCEPT !.applied = rz.layout], threw |-> FALSE]

\* Variant of OnResizeBody: onResize without clearTimeout(resizeTimeout).
OnResizeNoClear(rz, t) ==
  [rz EXCEPT !.timers = @ \cup {t + ResizeDelay},
             !.resizeTimeout = t + ResizeDelay]

\* onResize(), src/unnamed/part_001 lines 84-87, at time t.  A timer is
\* named by the instant it is due.
OnResizeBody(rz, t) ==
  [rz EXCEPT !.timers = (@ \ {rz.resizeTimeout}) \cup {t + ResizeDelay},
             !.resizeTimeout = t + ResizeDelay]

\* The window fires 'resize' with the hero section laid out w wide.
WindowResize ==
  /\ page = "reveal"
  /\ resizer.listening
  /\ resizer.burst < MaxBurst
  /\ \E w \in HeroWidths :
       resizer' = [OnResizeBody([resizer EXCEPT !.layout = w], now)
                     EXCEPT !.lastEvent = now, !.appliedSince = 0, !.burst = @ + 1]
  /\ called' = "resize"
  /\ threw' = FALSE
  /\ UNCHANGED <<page, calc, now, engineVars, histVars, reveal, rmedia, rcanvas,
                 alphaUsed, hero, hraf, pointerActive, tmvVars, metaVars>>

\* A timer set by onResize is due and the event loop runs its callback.
ResizeTimer ==
  /\ page = "reveal"
  /\ \E d \in resizer.timers :
       /\ now >= d
       /\ LET o == HandleResize(reveal, [resizer EXCEPT !.timers = @ \ {d}]) IN
            /\ resizer' = IF o.threw THEN o.resizer
                          ELSE [o.resizer EXCEPT !.appliedSince = @ + 1,
                                                 !.lastBurst = resizer.burst,
                                                 !.burst = 0]
            /\ threw' = o.threw
  /\ called' = "resizeTimer"
  /\ UNCHANGED <<page, calc, now, engineVars, histVars, reveal, rmedia, rcanvas,
                 alphaUsed, hero, hraf, pointerActive, tmvVars, metaVars>>

\* Time passes on the hero page.  A timer runs no earlier than it is due
\* and at most MaxLateTicks instants later.
ResizeClock ==
  /\ page = "reveal"
  /\ \E t \in ResizeInstants :
       /\ t > now
       /\ \A d \in resizer.timers : t <= d + MaxLateTicks * ResizeTick
       /\ now' = t
  /\ called' = "tick"
  /\ threw' = FALSE
  /\ UNCHANGED <<page, calc, engineVars, histVars, revealVars, tmvVars, metaVars>>

(***************************************************************************)
(* TextMaskedVideo                                                         *)
(***************************************************************************)
\* constructor, lines 7-74, up to the await of init()
NewTmv(n) ==
  [ videoPlaylist     |-> n,
    usePlaylist       |-> n > 0,
    currentVideoIndex |-> 0,
    isDestroyed       |-> FALSE,
    animationId       |-> NULL,       \* NULL, "live" (a pending callback) or "stale"
    initStep          |-> "awaitFont",\* position of the async init()
    canvasAttached    |-> FALSE,
    listeners         |-> FALSE,      \* resize / mousemove / mouseenter / mouseleave
    onCanPlay         |-> FALSE,      \* the once-only 'canplay' listener is armed
    onEnded           |-> FALSE,      \* the 'ended' listener is registered
    guarded           |-> 0,          \* pending play() promises that carry the catch handler
    shown             |-> "clear" ]   \* the canvas: "clear", "video" (video inside
                                      \* the letters) or "text" (plain white letters)

\* renderLoop's pass, lines 371-396, with renderWithOffscreen, lines 300-357:
\* below HAVE_CURRENT_DATA nothing is touched; otherwise the canvas is cleared
\* and every letter is filled white on the offscreen canvas, the video is
\* drawn over it with 'source-in', and the result is copied to the canvas.
\* Where drawImage draws nothing the white letter is not composited away.
TmvRenderPass(shown, m) ==
  IF m.readyState < 2 THEN shown
  ELSE IF DrawImage(m) = "video" THEN "video" ELSE "text"

\* advanceToNextVideo(), lines 122-136
TmvAdvanceIndex(i, n) == (i + 1) % n

\* init() after the font promise settled, lines 84-119
TmvInitContinue ==
  /\ page = "tmv"
  /\ tmv.initStep = "awaitFont"
  /\ tmv' = [tmv EXCEPT !.initStep = "done",
                        !.canvasAttached = TRUE,
                        !.listeners = TRUE,
                        !.onCanPlay = TRUE,
                        !.onEnded = tmv.usePlaylist]
  /\ tmedia' = MediaLoad(tmedia, tmedia.src)
  /\ called' = "init"
  /\ threw' = FALSE
  /\ UNCHANGED <<page, calc, now, engineVars, histVars, revealVars, traf, metaVars>>

\* The element loads its source; at HAVE_ENOUGH_DATA 'canplay' has fired.
\* The once-only listener (lines 102-109) starts playback and the render
\* loop, whose first pass runs at once (lines 371-401).
TmvMediaProgress ==
  /\ page = "tmv"
  /\ tmedia.src # 0 /\ ~tmedia.failed /\ tmedia.readyState < 4
  /\ tmedia.pending < MaxPending
  /\ traf < MaxRaf
  /\ \E zero \in BOOLEAN :
     /\ tmedia.readyState # 0 => ~zero
     /\ LET m1 == MediaProgress(tmedia, zero) IN
          IF m1.readyState = 4 /\ tmv.onCanPlay
            THEN /\ tmedia' = MediaPlay(m1)
                 /\ IF tmv.isDestroyed
                      THEN /\ tmv' = [tmv EXCEPT !.onCanPlay = FALSE, !.guarded = @ + 1]
                           /\ UNCHANGED traf
                      ELSE /\ tmv' = [tmv EXCEPT !.onCanPlay = FALSE,
                                                !.shown = TmvRenderPass(@, m1),
                                                !.animationId = "live",
                                                !.guarded = @ + 1]
                           /\ traf' = traf + 1
            ELSE /\ tmedia' = m1
                 /\ UNCHANGED <<tmv, traf>>
  /\ called' = "mediaProgress"
  /\ threw' = FALSE
  /\ UNCHANGED <<page, calc, now, engineVars, histVars, revealVars, metaVars>>

\* The promise of this.video.play() settles, lines 104-107 and 132-135.
\* `first` tells a promise of the first attempt, which carries the catch
\* handler, from one of the retry inside that handler, which carries none.
\* On rejection of a first attempt the handler mutes and calls play() again.
TmvPlaySettled(ok, first) ==
  /\ page = "tmv"
  /\ tmedia.pending > 0
  /\ IF first THEN tmv.guarded > 0 ELSE tmedia.pending > tmv.guarded
  /\ ok => (tmedia.src # 0 /\ ~tmedia.failed)
  /\ tmedia' = IF ok THEN MediaResolve(tmedia)
               ELSE IF first THEN MediaPlay(MediaReject(tmedia))
               ELSE MediaReject(tmedia)
  /\ tmv' = [tmv EXCEPT !.guarded = IF first THEN @ - 1 ELSE @]
  /\ called' = IF ok THEN "playResolved" ELSE "playRejected"
  /\ threw' = FALSE
  /\ UNCHANGED <<page, calc, now, engineVars, histVars, revealVars, traf, metaVars>>

\* The 'ended' listener, lines 112-116.
TmvEnded ==
  /\ page = "tmv"
  /\ tmv.onEnded
  /\ tmedia.playing /\ ~tmedia.loop
  /\ endedCount < MaxEnded
  /\ tmedia.pending < MaxPending
  /\ IF tmv.isDestroyed
       THEN /\ tmedia' = MediaEnd(tmedia)
            /\ UNCHANGED tmv
       ELSE /\ tmv' = [tmv EXCEPT !.currentVideoIndex =
                         TmvAdvanceIndex(tmv.currentVideoIndex, tmv.videoPlaylist),
                                 !.guarded = @ + 1]
            /\ tmedia' = MediaPlay(MediaLoad(MediaEnd(tmedia),
                                             tmv'.currentVideoIndex + 1))
  /\ endedCount' = endedCount + 1
  /\ called' = "ended"
  /\ threw' = FALSE
  /\ UNCHANGED <<page, calc, now, engineVars, destroyed, retry, revealVars, traf, metaVars>>

\* renderLoop as a requestAnimationFrame callback, lines 371-399.
TmvRenderLoop(ref) ==
  /\ page = "tmv"
  /\ traf > 0
  /\ IF ref THEN tmv.animationId = "live"
            ELSE traf > (IF tmv.animationId = "live" THEN 1 ELSE 0)
  /\ IF tmv.isDestroyed
       THEN /\ tmv' = [tmv EXCEPT !.animationId = IF ref THEN "stale" ELSE @]
            /\ traf' = traf - 1
       ELSE /\ tmv' = [tmv EXCEPT !.animationId = "live",
                                 !.shown = TmvRenderPass(@, tmedia)]
            /\ UNCHANGED traf
  /\ called' = "animate"
  /\ threw' = FALSE
  /\ UNCHANGED <<page, calc, now, engineVars, histVars, revealVars, tmedia, metaVars>>

\* destroy(), lines 404-423
TmvDestroy ==
  /\ page = "tmv"
  /\ tmv' = [tmv EXCEPT !.isDestroyed = TRUE,
                        !.animationId = IF @ = "live" THEN "stale" ELSE @,
                        !.listeners = FALSE,
                        !.canvasAttached = FALSE]
  /\ traf' = IF tmv.animationId = "live" THEN traf - 1 ELSE traf
  /\ tmedia' = MediaLoad(MediaPause(tmedia), 0)
  /\ destroyed' = TRUE
  /\ called' = "destroy"
  /\ threw' = FALSE
  /\ UNCHANGED <<page, calc, now, engineVars, endedCount, retry, revealVars, metaVars>>

(***************************************************************************)
(* Metamorphosis phase animator                                            *)
(***************************************************************************)
Phases == <<"start", "chaos", "order", "converge", "wave", "filter", "split", "flow">>

\* CONFIG, lines 20-30
Cols == 30
Rows == 15

\* The state record, lines 44-52 and 366-374; scalars in percent.
ResetState ==
  [dotScale |-> 0, waveExpand |-> 0, waveFilter |-> 0, splitProgress |-> 0,
   flowStretch |-> 0, dashOffset |-> 0, dotOpacity |-> 100]

\* The children runAnimation() adds to the main timeline, lines 383-513, in
\* order.  kind "state": a scalar of state is driven to `to`, rendering on
\* every update; "particles": all particles are driven to their `to` target,
\* rendering on every update; "wait": an empty delay; "phase": the 1 ms
\* child whose onComplete sets currentPhase.
Seg(kind, prop, to) == [kind |-> kind, prop |-> prop, to |-> to]

Segments ==
  << Seg("state", "dotScale", 100),      Seg("wait", "", 0),
     Seg("phase", "chaos", 0),           Seg("particles", "chaos", 0),
     Seg("wait", "", 0),
     Seg("phase", "order", 0),           Seg("particles", "grid", 0),
     Seg("wait", "", 0),
     Seg("phase", "converge", 0),        Seg("particles", "center", 0),
     Seg("wait", "", 0),
     Seg("phase", "wave", 0),            Seg("state", "waveExpand", 100),
     Seg("wait", "", 0),
     Seg("phase", "filter", 0),          Seg("state", "waveFilter", 100),
     Seg("wait", "", 0),
     Seg("phase", "split", 0),           Seg("state", "splitProgress", 50),
     Seg("state", "splitProgress", 100), Seg("wait", "", 0),
     Seg("phase", "flow", 0),            Seg("state", "flowStretch", 100),
     Seg("state", "dashOffset", 0) >>

\* Widths getBoundingClientRect() reports for the canvas (CSS pixels),
\* values of window.devicePixelRatio, and values random() returns
\* (hundredths, in [0, 1)).
RectWidths == {300, 400}

DevicePixelRatios == {0, 1, 2, 3}

RandomDraws == {0, 50, 99}

Layouts ==
  [rectWidth : RectWidths, devicePixelRatio : DevicePixelRatios, random : RandomDraws]

DefaultLayout == [rectWidth |-> 300, devicePixelRatio |-> 1, random |-> 50]

\* The module state before initMetamorphosis(), lines 33-52.
NewMeta ==
  [ canvas       |-> NULL,
    ctx          |-> NULL,
    canvasWidth  |-> 0,
    scale        |-> 1,            \* device pixels per drawing unit of ctx
    centerX      |-> 0,
    \* the array by its length and one particle of it: where the particles
    \* stand, its x and its chaos target (drawing units)
    particles    |-> [count |-> 0, at |-> "center", x |-> 0, chaosX |-> 0],
    mainTimeline |-> 0,            \* 0 for null, else an index of timelines
    flowLoop     |-> 0,            \* 0 for null, else an index of flows
    isRunning    |-> FALSE,
    currentPhase |-> "start",
    state        |-> ResetState ]

\* Math.min(window.devicePixelRatio || 1, 2), line 526; 0 for a browser
\* that does not report the ratio.
Dpr(devicePixelRatio) ==
  LET r == IF devicePixelRatio = 0 THEN 1 ELSE devicePixelRatio IN
  IF r < 2 THEN r ELSE 2

\* setupCanvas(), lines 521-533: assigning canvas.width resets the context
\* to the identity transform, which ctx.scale(dpr, dpr) then scales.
SetupCanvas(m, d) ==
  IF m.canvas = NULL THEN m
  ELSE LET dpr == Dpr(d.devicePixelRatio) IN
       [m EXCEPT !.canvasWidth = d.rectWidth * dpr, !.ctx = "ctx", !.scale = dpr]

\* initParticles(), lines 70-97; random() is d.random hundredths.
InitParticles(m, d) ==
  LET w == m.canvasWidth IN
  [m EXCEPT !.centerX = w \div 2,
            !.particles = [count |-> Cols * Rows, at |-> "center",
                           x |-> w \div 2,
                           chaosX |-> (d.random * w) \div 100]]

\* initMetamorphosis(), lines 538-557
InitMetamorphosisBody(m, d) ==
  LET m1 == [m EXCEPT !.canvas = IF d.hasCanvas THEN "canvas" ELSE NULL] IN
  IF m1.canvas = NULL THEN m1
  ELSE IF d.reducedMotion THEN m1
  ELSE InitParticles(SetupCanvas(m1, d), d)

\* render(), lines 320-341: the picture the current phase draws.
RenderPicture(m) ==
  CASE m.currentPhase \in {"start", "chaos", "order", "converge"} -> "dots"
    [] m.currentPhase \in {"wave", "filter"} -> "wave"
    [] m.currentPhase = "split" -> "split"
    [] m.currentPhase = "flow" -> "flow"
    [] OTHER -> "none"

Render(m, shown) ==
  IF m.ctx = NULL THEN shown
  ELSE IF RenderPicture(m) = "none" THEN shown
  ELSE RenderPicture(m)

MOutcome(m, tl, fl, shown, trail) ==
  [meta |-> m, timelines |-> tl, flows |-> fl, shown |-> shown, trail |-> trail]

\* runAnimation(), lines 362-516: reset, then a new running timeline.
RunAnimation(m, tl) ==
  [meta |-> [m EXCEPT !.currentPhase = "start",
                      !.state = ResetState,
                      !.particles = [@ EXCEPT !.at = "center", !.x = m.centerX],
                      !.mainTimeline = Len(tl) + 1],
   timelines |-> Append(tl, [status |-> "running", pos |-> 0])]

\* Variant of StartBody: startMetamorphosis without `if (isRunning) return`.
StartBodyUnguarded(m, d, tl, fl, shown, trail) ==
  LET m1 == IF m.canvas = NULL THEN InitMetamorphosisBody(m, d) ELSE m IN
  IF m1.canvas = NULL THEN MOutcome(m1, tl, fl, shown, trail)
  ELSE LET m2 == InitParticles(SetupCanvas([m1 EXCEPT !.isRunning = TRUE], d), d)
           r  == RunAnimation(m2, tl) IN
       MOutcome(r.meta, r.timelines, fl, shown, <<"start">>)

\* window.startMetamorphosis, lines 563-579
StartBody(m, d, tl, fl, shown, trail) ==
  IF m.isRunning THEN MOutcome(m, tl, fl, shown, trail)
  ELSE LET m1 == IF m.canvas = NULL THEN InitMetamorphosisBody(m, d) ELSE m IN
       IF m1.canvas = NULL THEN MOutcome(m1, tl, fl, shown, trail)
       ELSE LET m2 == InitParticles(SetupCanvas([m1 EXCEPT !.isRunning = TRUE], d), d)
                r  == RunAnimation(m2, tl) IN
            MOutcome(r.meta, r.timelines, fl, shown, <<"start">>)

Pause(seq, i) == [seq EXCEPT ![i].status = "paused"]

\* Variant of StopBody: stopMetamorphosis dropping flowLoop without pausing it.
StopBodyKeepsFlow(m, tl, fl, shown, trail) ==
  IF ~m.isRunning THEN MOutcome(m, tl, fl, shown, trail)
  ELSE MOutcome([m EXCEPT !.isRunning = FALSE, !.mainTimeline = 0, !.flowLoop = 0],
                IF m.mainTimeline # 0 THEN Pause(tl, m.mainTimeline) ELSE tl,
                fl,
                IF m.ctx # NULL THEN "clear" ELSE shown,
                trail)

\* window.stopMetamorphosis, lines 585-607
StopBody(m, tl, fl, shown, trail) ==
  IF ~m.isRunning THEN MOutcome(m, tl, fl, shown, trail)
  ELSE MOutcome([m EXCEPT !.isRunning = FALSE, !.mainTimeline = 0, !.flowLoop = 0],
                IF m.mainTimeline # 0 THEN Pause(tl, m.mainTimeline) ELSE tl,
                IF m.flowLoop # 0 THEN Pause(fl, m.flowLoop) ELSE fl,
                IF m.ctx # NULL THEN "clear" ELSE shown,
                trail)

\* Variant of StartFlowLoop: the timeline's onComplete starts no loop.
StartFlowLoopNever(m, fl) == [meta |-> m, flows |-> fl]

\* startFlowLoop(), lines 346-357
StartFlowLoop(m, fl) ==
  IF ~m.isRunning THEN [meta |-> m, flows |-> fl]
  ELSE [meta |-> [m EXCEPT !.state.dashOffset = 0, !.flowLoop = Len(fl) + 1],
        flows |-> Append(fl, [status |-> "running"])]

\* The effect of timeline child g on the module state when it completes.
SegmentEffect(m, g) ==
  CASE g.kind = "state" ->
         [m EXCEPT !.state[g.prop] =
            IF g.prop = "dashOffset" THEN 0 - (m.canvasWidth + 50) ELSE g.to]
    [] g.kind = "particles" -> [m EXCEPT !.particles.at = g.prop]
    [] g.kind = "phase" ->
         LET m1 == [m EXCEPT !.currentPhase = g.prop] IN
         CASE g.prop = "wave"  -> [m1 EXCEPT !.state.waveExpand = 0, !.state.waveFilter = 0]
           [] g.prop = "split" -> [m1 EXCEPT !.state.splitProgress = 0]
           [] g.prop = "flow"  -> [m1 EXCEPT !.state.flowStretch = 0]
           [] OTHER -> m1
    [] OTHER -> m

MetaInit ==
  /\ page = "meta"
  /\ meta' = InitMetamorphosisBody(meta, dom)
  /\ called' = "init"
  /\ threw' = FALSE
  /\ UNCHANGED <<page, calc, now, engineVars, histVars, revealVars, tmvVars, magnet,
                 dom, timelines, flows, mcanvas, phaseTrail>>

StartMetamorphosis ==
  /\ page = "meta"
  /\ meta.isRunning \/ Len(timelines) < MaxRuns
  /\ LET o == StartBody(meta, dom, timelines, flows, mcanvas, phaseTrail) IN
       /\ meta' = o.meta
       /\ timelines' = o.timelines
       /\ flows' = o.flows
       /\ mcanvas' = o.shown
       /\ phaseTrail' = o.trail
  /\ called' = "start"
  /\ threw' = FALSE
  /\ UNCHANGED <<page, calc, now, engineVars, histVars, revealVars, tmvVars, magnet, dom>>

StopMetamorphosis ==
  /\ page = "meta"
  /\ LET o == StopBody(meta, timelines, flows, mcanvas, phaseTrail) IN
       /\ meta' = o.meta
       /\ timelines' = o.timelines
       /\ flows' = o.flows
       /\ mcanvas' = o.shown
       /\ phaseTrail' = o.trail
  /\ called' = "stop"
  /\ threw' = FALSE
  /\ UNCHANGED <<page, calc, now, engineVars, histVars, revealVars, tmvVars, magnet, dom>>

\* The tween engine completes the next child of running timeline i.
TimelineStep(i) ==
  /\ page = "meta"
  /\ timelines[i].status = "running"
  /\ LET k  == timelines[i].pos + 1
         g  == Segments[k]
         m1 == SegmentEffect(meta, g)
         last == k = Len(Segments)
         f  == IF last THEN StartFlowLoop(m1, flows)
                       ELSE [meta |-> m1, flows |-> flows] IN
       /\ meta' = f.meta
       /\ flows' = f.flows
       /\ timelines' = [timelines EXCEPT ![i].pos = k,
                                         ![i].status = IF last THEN "done" ELSE @]
       /\ mcanvas' = IF g.kind \in {"state", "particles"}
                       THEN Render(m1, mcanvas) ELSE mcanvas
       /\ phaseTrail' = IF g.kind = "phase" THEN Append(phaseTrail, g.prop)
                                            ELSE phaseTrail
  /\ called' = "tween"
  /\ threw' = FALSE
  /\ UNCHANGED <<page, calc, now, engineVars, histVars, revealVars, tmvVars, magnet, dom>>

\* The tween engine completes one more pass of running flow loop i.
FlowLoopPass(i) ==
  /\ page = "meta"
  /\ flows[i].status = "running"
  /\ meta' = [meta EXCEPT !.state.dashOffset =
                IF @ = 0 THEN 0 - (meta.canvasWidth + 50) ELSE 0]
  /\ mcanvas' = Render(meta', mcanvas)
  /\ called' = "flowPass"
  /\ threw' = FALSE
  /\ UNCHANGED <<page, calc, now, engineVars, histVars, revealVars, tmvVars, magnet,
                 dom, timelines, flows, phaseTrail>>

\* The window is resized: the canvas is laid out at another width.
Resize ==
  /\ page = "meta"
  /\ \E w \in RectWidths \ {dom.rectWidth} : dom' = [dom EXCEPT !.rectWidth = w]
  /\ called' = "resize"
  /\ threw' = FALSE
  /\ UNCHANGED <<page, calc, now, engineVars, histVars, revealVars, tmvVars, magnet,
                 meta, timelines, flows, mcanvas, phaseTrail>>

(***************************************************************************)
(* Magnetic cursor, magnetic-cursor.js.  The pointer is known by its       *)
(* distance to the centre of the period (CSS pixels).                      *)
(***************************************************************************)
\* CONFIG, lines 13-18
DefaultRadii == [magnetRadius |-> 80, captureRadius |-> 20, escapeRadius |-> 110]

\* Radii a caller of initMagneticCursor may pass; the second set has its
\* capture radius at 60% of its magnet radius and no gap between the magnet
\* and the escape radius.
RadiiOptions ==
  {DefaultRadii, [magnetRadius |-> 80, captureRadius |-> 48, escapeRadius |-> 80]}

\* Distances of the pointer, on both sides of every radius.
Distances == {19, 20, 47, 48, 79, 80, 110, 111}

\* The module state before initMagneticCursor(), lines 21-32; the pointer
\* starts far from the period.
NewMagnet ==
  [ config        |-> DefaultRadii,
    cursor        |-> FALSE,      \* the .custom-cursor element was found
    isActive      |-> FALSE,
    isCaptured    |-> FALSE,
    isInitialized |-> FALSE,
    loop          |-> FALSE,      \* a magnetLoop callback is pending
    dist          |-> 111 ]

GOutcome(g, o) == [magnet |-> g, anim |-> o]

\* drawRectangle(), lines 92-119, with the call of window.startMetamorphosis
DrawRectangle(g, m, d, tl, fl, shown, trail) ==
  IF g.isActive THEN GOutcome(g, MOutcome(m, tl, fl, shown, trail))
  ELSE GOutcome([g EXCEPT !.isActive = TRUE],
                StartBody(m, d, tl, fl, shown, trail))

\* closeRectangle(), lines 124-153, with the call of window.stopMetamorphosis
CloseRectangle(g, m, tl, fl, shown, trail) ==
  IF ~g.isActive THEN GOutcome(g, MOutcome(m, tl, fl, shown, trail))
  ELSE GOutcome([g EXCEPT !.isActive = FALSE, !.isCaptured = FALSE],
                StopBody(m, tl, fl, shown, trail))

\* Variant of MagnetLoopBody: the rectangle closes as soon as the pointer is
\* outside the magnet radius, without the wider escape radius.
MagnetLoopNoHysteresis(g, m, d, tl, fl, shown, trail) ==
  LET same == GOutcome(g, MOutcome(m, tl, fl, shown, trail)) IN
  IF ~g.cursor THEN same
  ELSE IF g.dist < g.config.captureRadius
    THEN IF ~g.isCaptured
           THEN DrawRectangle([g EXCEPT !.isCaptured = TRUE], m, d, tl, fl, shown, trail)
           ELSE same
  ELSE IF g.dist < g.config.magnetRadius
    THEN IF ~g.isActive /\ 10 * g.dist < 6 * g.config.magnetRadius
           THEN DrawRectangle(g, m, d, tl, fl, shown, trail)
           ELSE same
  ELSE CloseRectangle(g, m, tl, fl, shown, trail)

\* magnetLoop() up to the request of the next frame, lines 158-196
MagnetLoopBody(g, m, d, tl, fl, shown, trail) ==
  LET same == GOutcome(g, MOutcome(m, tl, fl, shown, trail)) IN
  IF ~g.cursor THEN same
  ELSE IF g.dist < g.config.captureRadius
    THEN IF ~g.isCaptured
           THEN DrawRectangle([g EXCEPT !.isCaptured = TRUE], m, d, tl, fl, shown, trail)
           ELSE same
  ELSE IF g.dist < g.config.magnetRadius
    THEN IF ~g.isActive /\ 10 * g.dist < 6 * g.config.magnetRadius
           THEN DrawRectangle(g, m, d, tl, fl, shown, trail)
           ELSE same
  ELSE IF g.dist > g.config.escapeRadius
    THEN CloseRectangle(g, m, tl, fl, shown, trail)
  ELSE same

\* A frame of the loop may start the animator: room for one more timeline.
RoomForRun == meta.isRunning \/ magnet.isActive \/ Len(timelines) < MaxRuns

\* initMagneticCursor(options), lines 212-255, on a page that has not
\* initialized the effect: the options are merged, the elements looked up;
\* with the elements present, motion allowed and a fine pointer the
\* listeners are registered and magnetLoop() runs once.
InitMagneticCursor ==
  /\ page = "meta"
  /\ ~magnet.isInitialized /\ ~magnet.loop
  /\ RoomForRun
  /\ \E radii \in RadiiOptions, present, coarse, cursor \in BOOLEAN :
       LET g == [magnet EXCEPT !.config = radii, !.cursor = cursor] IN
       IF ~present \/ dom.reducedMotion \/ coarse
         THEN /\ magnet' = g
              /\ UNCHANGED <<meta, timelines, flows, mcanvas, phaseTrail>>
         ELSE LET o == MagnetLoopBody(g, meta, dom, timelines, flows, mcanvas, phaseTrail) IN
              /\ magnet' = [o.magnet EXCEPT !.loop = TRUE, !.isInitialized = TRUE]
              /\ meta' = o.anim.meta
              /\ timelines' = o.anim.timelines
              /\ flows' = o.anim.flows
              /\ mcanvas' = o.anim.shown
              /\ phaseTrail' = o.anim.trail
  /\ called' = "initMagneticCursor"
  /\ threw' = FALSE
  /\ UNCHANGED <<page, calc, now, engineVars, histVars, revealVars, tmvVars, dom>>

\* handleMouseMove, lines 204-207, while the listener is registered.
MagnetMouseMove ==
  /\ page = "meta"
  /\ magnet.isInitialized
  /\ \E dist \in Distances \ {magnet.dist} : magnet' = [magnet EXCEPT !.dist = dist]
  /\ called' = "mousemove"
  /\ threw' = FALSE
  /\ UNCHANGED <<page, calc, now, engineVars, histVars, revealVars, tmvVars,
                 dom, meta, timelines, flows, mcanvas, phaseTrail>>

\* A requestAnimationFrame callback runs magnetLoop(), lines 158-199.
MagnetLoop ==
  /\ page = "meta"
  /\ magnet.loop
  /\ RoomForRun
  /\ LET o == MagnetLoopBody(magnet, meta, dom, timelines, flows, mcanvas, phaseTrail) IN
       /\ magnet' = o.magnet
       /\ meta' = o.anim.meta
       /\ timelines' = o.anim.timelines
       /\ flows' = o.anim.flows
       /\ mcanvas' = o.anim.shown
       /\ phaseTrail' = o.anim.trail
  /\ called' = "magnetLoop"
  /\ threw' = FALSE
  /\ UNCHANGED <<page, calc, now, engineVars, histVars, revealVars, tmvVars, dom>>

\* destroyMagneticCursor(), lines 260-286
DestroyMagneticCursor ==
  /\ page = "meta"
  /\ magnet' = IF ~magnet.isInitialized THEN magnet
               ELSE [magnet EXCEPT !.loop = FALSE, !.isActive = FALSE,
                                   !.isCaptured = FALSE, !.isInitialized = FALSE]
  /\ called' = "destroyMagneticCursor"
  /\ threw' = FALSE
  /\ UNCHANGED <<page, calc, now, engineVars, histVars, revealVars, tmvVars,
                 dom, meta, timelines, flows, mcanvas, phaseTrail>>

\* Time passes: the clock moves to a later instant of T.
Tick(T) ==
  /\ page = "engine"          \* the engine's throttle is the only reader of the clock
  /\ \E t \in T : t > now /\ now' = t
  /\ called' = "tick"
  /\ threw' = FALSE
  /\ UNCHANGED <<page, calc, engineVars, histVars, revealVars, tmvVars,
                 metaVars>>

Pages == {"engine", "reveal", "tmv", "meta"}

\* The state after the page constructed its component.  The components the
\* page does not use are the ones a default construction gives.
InitWith(opacities, layouts) ==
  /\ page \in Pages
  /\ now = 0
  /\ called = "new"
  /\ threw = FALSE
  /\ destroyed = FALSE
  /\ endedCount = 0
  /\ retry = "none"
  \* new AsciiVideoEngine({ playlist, targetFps })
  /\ \E n \in 0..MaxPlaylist, fps \in TargetFpsChoices :
       /\ page # "engine" => (n = 0 /\ fps = 1)
       /\ engine = NewEngine(n, fps)
       /\ emedia = NewMedia(IF n > 0 THEN 1 ELSE 0, FALSE)
  /\ eraf = 0
  /\ frameLog = <<>>
  /\ sincePause = FALSE
  \* initHeroVideoReveal({ videoSrc, fallbackSrc, videoPlaylist })
  /\ \E n \in 0..MaxPlaylist, hasVideoSrc, canPlayWebM \in BOOLEAN,
        fallbackSrc \in {"none", "relative", "absolute"}, o \in opacities :
       /\ page # "reveal" => (n = 0 /\ hasVideoSrc /\ fallbackSrc = "absolute" /\ canPlayWebM)
       \* with a play-list the single-source options are never read
       /\ n > 0 => (hasVideoSrc /\ fallbackSrc = "none" /\ canPlayWebM)
       /\ reveal = NewReveal(n, fallbackSrc, OpacityOption(o.given, o.value))
       /\ rmedia = NewMedia(FirstSource(n, hasVideoSrc, fallbackSrc # "none", canPlayWebM),
                            n = 0)
  /\ rcanvas = "clear"
  /\ alphaUsed = 100
  \* initHeroVideoReveal ran animate() once: a render and a scheduled callback
  /\ hero = [isRunning |-> TRUE, rafId |-> "live"]
  /\ hraf = 1
  /\ pointerActive = FALSE
  /\ resizer = NewResizer(800)
  \* new TextMaskedVideo(container): data-video-playlist or data-video-src
  /\ \E n \in 0..MaxPlaylist :
       /\ page # "tmv" => n = 0
       /\ tmv = NewTmv(n)
       /\ tmedia = NewMedia(1, n = 0)
  /\ traf = 0
  \* metamorphosis-canvas.js loaded; the page may hold the canvas element
  /\ \E hasCanvas, reducedMotion \in BOOLEAN, l \in layouts :
       /\ page # "meta" => (hasCanvas /\ ~reducedMotion)
       /\ dom = [hasCanvas |-> hasCanvas, reducedMotion |-> reducedMotion,
                 rectWidth |-> l.rectWidth,
                 devicePixelRatio |-> l.devicePixelRatio,
                 random |-> l.random]
  /\ meta = NewMeta
  /\ timelines = <<>>
  /\ flows = <<>>
  /\ mcanvas = "clear"
  /\ phaseTrail = <<>>
  /\ magnet = NewMagnet
  /\ calc = NoCall

\* The pages of the site: the hero reveal is created with its default opacity.
Init == InitWith({[given |-> TRUE, value |-> HeroDefaultOpacity]}, {DefaultLayout})

vars == <<page, now, called, threw, engineVars, histVars, revealVars, tmvVars,
          metaVars, calc>>

\* The operations and callbacks of the engine, the clock standing still.
NextEngineOps ==
  \/ EnginePlay
  \/ EnginePlayResolved
  \/ EnginePlayRejected
  \/ EnginePause
  \/ EngineToggle
  \/ EngineEnded
  \/ EngineDestroy
  \/ \E ref \in BOOLEAN : EngineAnimate(ref)

NextEngine == NextEngineOps \/ Tick(WholeSeconds)

InitEngine == Init /\ page = "engine"

SpecEngine == InitEngine /\ [][NextEngine]_vars

\* Calls of the module-level functions on a page that loaded the engine.
InitCalc == InitEngine /\ engine.videoPlaylist = 0 /\ engine.targetFps = 1

SpecLuminance == InitCalc /\ [][CallLuminance]_vars

NextRamp == CallCharForLuminance \/ CallMapLuminance

SpecRamp == InitCalc /\ [][NextRamp]_vars

SpecEncode == InitCalc /\ [][CallEncode]_vars

SpecDither == InitCalc /\ [][CallDither]_vars

NextSample == CallGetPixelLuminance \/ CallEncode

SpecSample == InitCalc /\ [][NextSample]_vars

NextReveal ==
  \/ RevealPlay
  \/ RevealPlayResolved
  \/ RevealPlayRejected
  \/ RevealPause
  \/ RevealMediaProgress
  \/ RevealMediaError
  \/ RevealEnded
  \/ RevealDestroy
  \/ PointerMove
  \/ \E ref \in BOOLEAN : HeroAnimate(ref)
  \/ HeroDestroy

InitReveal == Init /\ page = "reveal"

SpecReveal == InitReveal /\ [][NextReveal]_vars

\* The hero reveal in a window that is resized while time passes.
NextResize == WindowResize \/ ResizeTimer \/ ResizeClock

SpecResize == InitReveal /\ [][NextResize]_vars

NextTmv ==
  \/ TmvInitContinue
  \/ TmvMediaProgress
  \/ \E ok, first \in BOOLEAN : TmvPlaySettled(ok, first)
  \/ TmvEnded
  \/ \E ref \in BOOLEAN : TmvRenderLoop(ref)
  \/ TmvDestroy

InitTmv == Init /\ page = "tmv"

SpecTmv == InitTmv /\ [][NextTmv]_vars

NextMeta ==
  \/ MetaInit
  \/ StartMetamorphosis
  \/ StopMetamorphosis
  \/ \E i \in 1..MaxRuns : i <= Len(timelines) /\ TimelineStep(i)
  \/ \E i \in 1..MaxRuns : i <= Len(flows) /\ FlowLoopPass(i)

InitMeta == Init /\ page = "meta"

SpecMeta == InitMeta /\ [][NextMeta]_vars

\* The animator on a canvas of any layout, in a window that is resized.
NextLayout ==
  \/ MetaInit
  \/ StartMetamorphosis
  \/ StopMetamorphosis
  \/ Resize
  \/ \E i \in 1..MaxRuns : i <= Len(timelines) /\ TimelineStep(i)

InitLayout ==
  /\ InitWith({[given |-> TRUE, value |-> HeroDefaultOpacity]}, Layouts)
  /\ page = "meta"

SpecLayout == InitLayout /\ [][NextLayout]_vars

\* A VideoRevealCanvas constructed with any opacity option, loading and
\* rendering its single source.
NextOpacity ==
  \/ RevealMediaProgress
  \/ RevealPlayResolved
  \/ PointerMove
  \/ \E ref \in BOOLEAN : HeroAnimate(ref)

InitOpacity ==
  InitWith(OpacityOptions, {DefaultLayout}) /\ page = "reveal" /\ ~reveal.usePlaylist /\ rmedia.src = 1

SpecOpacity == InitOpacity /\ [][NextOpacity]_vars

\* Any page: the host page instantiated one of the components.  Here the
\* clock stays at the instant of construction; the passing of time is the
\* subject of SpecEngine and SpecThrottle.
Next == NextEngineOps \/ NextReveal \/ NextTmv \/ NextMeta

Spec == Init /\ [][Next]_vars

\* Frame pacing: one engine with a one-source play-list, the refresh
\* callbacks and a clock that stops around every half second.
NextThrottle ==
  \/ EnginePlay
  \/ EnginePlayResolved
  \/ \E ref \in BOOLEAN : EngineAnimate(ref)
  \/ Tick(Timestamps)

InitThrottle == Init /\ page = "engine" /\ engine.videoPlaylist = 1

SpecThrottle == InitThrottle /\ [][NextThrottle]_vars

\* The hero handle until and after its destroy(): resize events, the
\* debounce timers, the animation-frame loop and the pointer.
NextHeroTeardown ==
  \/ WindowResize
  \/ ResizeTimer
  \/ ResizeClock
  \/ PointerMove
  \/ \E ref \in BOOLEAN : HeroAnimate(ref)
  \/ HeroDestroy

SpecHeroTeardown == InitReveal /\ [][NextHeroTeardown]_vars

\* The sampling resolution of a frame, for the widths, character sets and
\* video sizes of ProcessFrameExtract.
SpecDimensions == InitCalc /\ [][ProcessFrameExtract]_vars

\* The magnetic cursor driving the animator: no other caller of
\* startMetamorphosis and stopMetamorphosis.
NextMagnet ==
  \/ InitMagneticCursor
  \/ MagnetMouseMove
  \/ MagnetLoop
  \/ DestroyMagneticCursor
  \/ \E i \in 1..MaxRuns : i <= Len(timelines) /\ TimelineStep(i)
  \/ \E i \in 1..MaxRuns : i <= Len(flows) /\ FlowLoopPass(i)

SpecMagnet == InitMeta /\ [][NextMagnet]_vars

(***************************************************************************)
(* Properties                                                              *)
(***************************************************************************)

\* C1: AsciiVideoEngine - after destroy() has returned, every later call of
\* play() or pause() raises no error, changes no engine field and starts no
\* per-frame loop.
C1_AfterDestroyNoOp ==
  [][(destroyed /\ page = "engine" /\ called' \in {"play", "pause"})
       => (~threw' /\ engine' = engine /\ eraf' = eraf)]_vars

\* C2: AsciiVideoEngine and VideoRevealCanvas - when the media element
\* rejects the request to start playback, the rejection is caught: no
\* exception escapes, no field of the component changes (a component that was
\* not playing stays not playing) and no per-frame callback is scheduled.
C2_RejectionCaught ==
  [][(called' = "playRejected" /\ page \in {"engine", "reveal"})
       => /\ ~threw'
          /\ engine' = engine /\ eraf' = eraf
          /\ reveal' = reveal /\ hero' = hero /\ hraf' = hraf
          /\ (~engine.isPlaying => ~engine'.isPlaying /\ engine'.rafId = engine.rafId)
          /\ (~reveal.isPlaying => ~reveal'.isPlaying)]_vars

\* C2 witness: an engine whose play() was rejected was started by a later
\* play() call.
C2_RetrySucceeded ==
  page = "engine" /\ retry = "succeeded" /\ engine.isPlaying /\ emedia.playing

\* C3: AsciiVideoEngine - from the return of pause() until play() is called
\* again the engine is not playing.
C3_PausedStaysPaused == sincePause => ~engine.isPlaying

\* C4 as stated: the frame-processing step runs at most targetFps times
\* within any 1000 ms of timestamp time, so any targetFps + 1 consecutive
\* frames span at least 1000 ms.
C4_AtMostFpsPerSecond ==
  LET f == engine.targetFps
      k == Len(frameLog) IN
  k >= f + 1 => frameLog[k] - frameLog[k - f] >= MillisPerSecond

\* C4 amended: the frame-processing step runs at most targetFps + 1 times
\* within any 1000 ms of timestamp time (one frame per frame interval, the
\* intervals counted from the start of playback), so any targetFps + 2
\* consecutive frames span at least 1000 ms.
C4_AtMostFpsPlusOnePerSecond ==
  LET f == engine.targetFps
      k == Len(frameLog) IN
  /\ k >= f + 2 => frameLog[k] - frameLog[k - f - 1] >= MillisPerSecond
  /\ \A i \in 1..k :
       \* the frame lies in the frame interval lastFrameTime names, or an earlier one
       frameLog[i] < engine.lastFrameTime + engine.frameInterval

\* C4 witness: targetFps + 2 frames were processed, the first two of them in
\* adjacent frame intervals and closer together than one interval.
C4_DenseFrames ==
  /\ Len(frameLog) = engine.targetFps + 2
  /\ frameLog[2] - frameLog[1] < engine.frameInterval

\* The play-list part of C5: after k end-of-media notifications the index of
\* the page's component is k mod n and within 0..n-1, and the handler of the
\* notification has requested playback of that source.
PlaylistAdvanced ==
  /\ (page = "engine" /\ engine.videoPlaylist > 0)
       => /\ engine.currentVideoIndex = endedCount % engine.videoPlaylist
          /\ engine.currentVideoIndex \in 0..(engine.videoPlaylist - 1)
          /\ (called = "ended"
                => /\ ~threw /\ ~emedia.paused /\ emedia.pending > 0
                   /\ emedia.src = engine.currentVideoIndex + 1)
  /\ (page = "reveal" /\ reveal.usePlaylist)
       => /\ reveal.currentVideoIndex = endedCount % reveal.videoPlaylist
          /\ reveal.currentVideoIndex \in 0..(reveal.videoPlaylist - 1)
          /\ (called = "ended"
                => /\ ~threw /\ ~rmedia.paused /\ rmedia.pending > 0
                   /\ rmedia.src = reveal.currentVideoIndex + 1)
  /\ (page = "tmv" /\ tmv.usePlaylist)
       => /\ tmv.currentVideoIndex = endedCount % tmv.videoPlaylist
          /\ tmv.currentVideoIndex \in 0..(tmv.videoPlaylist - 1)
          /\ (called = "ended"
                => /\ ~threw /\ ~tmedia.paused /\ tmedia.pending > 0
                   /\ tmedia.src = tmv.currentVideoIndex + 1)

\* C5 as stated: play-list advancement as above for the three components,
\* and in each of them the media element of a component without a play-list
\* is set to loop natively.
C5_PlaylistOrNativeLoop ==
  /\ PlaylistAdvanced
  /\ (page = "engine" /\ engine.video # NULL)
       => emedia.loop = (engine.videoPlaylist = 0)
  /\ (page = "reveal" /\ reveal.video # NULL) => rmedia.loop = ~reveal.usePlaylist
  /\ page = "tmv" => tmedia.loop = ~tmv.usePlaylist

\* C5 amended: play-list advancement as above for the three components;
\* VideoRevealCanvas and TextMaskedVideo set the media element to loop
\* natively exactly when they have no play-list; AsciiVideoEngine takes its
\* sources from the play-list only and never sets the loop attribute.
C5_PlaylistOrNativeLoopOfMaskers ==
  /\ PlaylistAdvanced
  /\ page = "engine" => ~emedia.loop
  /\ (page = "reveal" /\ reveal.video # NULL) => rmedia.loop = ~reveal.usePlaylist
  /\ page = "tmv" => tmedia.loop = ~tmv.usePlaylist

\* C5 witness: a play-list of two sources wrapped from the last source to
\* the first one and advanced again.
C5_Wrapped ==
  /\ page = "tmv" /\ tmv.videoPlaylist = 2
  /\ endedCount = 3 /\ tmv.currentVideoIndex = 1 /\ called = "ended"

PhaseIndex(p) == CHOOSE i \in 1..Len(Phases) : Phases[i] = p

\* The state part of C6: the phases taken since the last start are an
\* initial part of the fixed order, each once; a timeline that ran to
\* completion took all eight and left the flow loop running.
PhasesInOrder ==
  /\ Len(phaseTrail) <= Len(Phases)
  /\ phaseTrail = SubSeq(Phases, 1, Len(phaseTrail))
  /\ meta.isRunning
       => /\ phaseTrail # <<>>
          /\ meta.currentPhase = phaseTrail[Len(phaseTrail)]
          /\ meta.mainTimeline # 0
          /\ timelines[meta.mainTimeline].status = "done"
               => /\ phaseTrail = Phases
                  /\ meta.flowLoop # 0
                  /\ flows[meta.flowLoop].status = "running"

\* C6: from startMetamorphosis the current phase takes the values start,
\* chaos, order, converge, wave, filter, split, flow in that order, each
\* once; it moves to the next phase only, except that a start (which
\* happens only while stopped) sets it back to start; once flow is reached
\* the dash-offset loop runs until stopMetamorphosis is called.
C6_PhaseSequencing ==
  [][/\ PhasesInOrder'
     /\ meta'.currentPhase # meta.currentPhase
          => \/ PhaseIndex(meta'.currentPhase) = PhaseIndex(meta.currentPhase) + 1
             \/ called' = "start" /\ ~meta.isRunning /\ meta'.currentPhase = "start"
     /\ meta.flowLoop # 0
          => \/ /\ meta'.flowLoop = meta.flowLoop
                /\ flows'[meta.flowLoop].status = "running"
             \/ called' = "stop"]_vars

\* C6 witness: the timeline ran through all eight phases and the flow loop
\* made a pass.
C6_FlowReached ==
  /\ phaseTrail = Phases /\ meta.currentPhase = "flow"
  /\ meta.flowLoop # 0 /\ called = "flowPass"

\* C7: startMetamorphosis while the animator is running changes nothing:
\* phase, state scalars, particles, timeline, flow loop, and no second
\* timeline is created.
C7_StartWhileRunningNoOp ==
  [][(called' = "start" /\ meta.isRunning)
       => /\ ~threw'
          /\ meta' = meta
          /\ timelines' = timelines /\ flows' = flows
          /\ mcanvas' = mcanvas /\ phaseTrail' = phaseTrail]_vars

\* C7 witness: startMetamorphosis returned while a run was past its first phase.
C7_StartedTwice ==
  called = "start" /\ meta.isRunning /\ Len(phaseTrail) > 1

\* The state part of C8: while the animator is not running, no timeline and
\* no flow loop is running or referenced, and the canvas is clear.
StoppedIsQuiet ==
  ~meta.isRunning
    => /\ meta.mainTimeline = 0 /\ meta.flowLoop = 0
       /\ \A i \in 1..Len(timelines) : timelines[i].status # "running"
       /\ \A i \in 1..Len(flows) : flows[i].status # "running"
       /\ mcanvas = "clear"

\* C8: stopMetamorphosis in any phase pauses and drops the main timeline and
\* the flow loop, clears the canvas and marks the animator not running, so
\* that nothing renders until the next start; a second stop raises no error
\* and changes nothing.
C8_StopIsCompleteAndIdempotent ==
  [][/\ StoppedIsQuiet'
     /\ called' = "stop" => (~threw' /\ ~meta'.isRunning)
     /\ (called' = "stop" /\ ~meta.isRunning)
          => UNCHANGED <<meta, timelines, flows, mcanvas, phaseTrail>>
     /\ (~meta.isRunning /\ ~meta'.isRunning) => mcanvas' = mcanvas]_vars

\* C8 witness: stopMetamorphosis returned after stopping a running flow loop.
C8_StoppedInFlow ==
  /\ called = "stop" /\ ~meta.isRunning
  /\ flows # <<>> /\ flows[Len(flows)].status = "paused"

\* The state destroy() leaves the page's component in.
DestroyedState ==
  /\ page = "engine"
       => /\ engine.video = NULL /\ engine.canvas = NULL /\ engine.outputCanvas = NULL
          /\ ~engine.isPlaying /\ engine.rafId = NULL
  /\ page = "reveal"
       => /\ reveal.video = NULL /\ reveal.canvas = NULL /\ reveal.ctx = NULL
          /\ ~reveal.isVideoReady /\ ~reveal.isPlaying
  /\ page = "tmv"
       => tmv.isDestroyed /\ ~tmv.canvasAttached /\ ~tmv.listeners /\ tmv.animationId # "live"

\* C9: a destroy() call on a component whose destroy() has already returned
\* raises no error and leaves the component in the destroyed state; for
\* AsciiVideoEngine, VideoRevealCanvas, TextMaskedVideo and the hero handle.
C9_DestroyIdempotent ==
  [][(\/ called' = "destroy" /\ destroyed
      \/ called' = "heroDestroy" /\ ~hero.isRunning)   \* the handle was destroyed before
       => /\ ~threw'
          /\ DestroyedState'
          /\ ~hero.isRunning => hero' = hero /\ hraf' = hraf]_vars

\* 'canplaythrough' has fired for the source the element now holds
\* (video-reveal.js lines 87-89).
SourceDecodable(m) == m.src # 0 /\ ~m.failed /\ m.readyState = 4

TmvRenders ==
  /\ page = "tmv" /\ ~tmv.isDestroyed
  /\ \/ called' = "animate"
     \/ called' = "mediaProgress" /\ tmv.onCanPlay /\ tmedia'.readyState = 4

\* C11: while the media element reports zero intrinsic width or height, a
\* frame of the radial masker leaves its canvas cleared, a frame of the
\* letterform masker draws nothing (its canvas is cleared, or, where the
\* pass is skipped, left as it was), and no error is raised.
C11_ZeroDimensionsDrawNothing ==
  [][/\ (page = "reveal" /\ called' = "animate" /\ hero.isRunning
          /\ reveal.ctx # NULL /\ ~HasDimensions(rmedia'))
       => (rcanvas' = "clear" /\ ~threw')
     /\ (TmvRenders /\ ~HasDimensions(tmedia'))
       => /\ ~threw'
          /\ \/ tmv'.shown = "clear"
             \/ tmedia'.readyState < 2 /\ tmv'.shown = tmv.shown]_vars

\* C12: VideoRevealCanvas without a play-list - when the primary source
\* (source 1) fails and a fallback is configured, the element is switched to
\* the fallback (source 2); when the fallback fails, the source is not set
\* again and nothing is reloaded: the element stays failed.
C12_FallbackAtMostOnce ==
  [][(page = "reveal" /\ called' = "mediaError" /\ ~reveal.usePlaylist)
       => /\ ~threw'
          /\ (rmedia.src = 1 /\ reveal.fallbackSrc # "none")
               => (rmedia'.src = 2 /\ ~rmedia'.failed)
          /\ rmedia.src = 2
               => (rmedia'.src = 2 /\ rmedia'.failed /\ rmedia'.readyState = 0)]_vars

\* C13: for every opacity option the opacity VideoRevealCanvas stores lies
\* in [0, 1], and so does the alpha in effect when it draws the video.
C13_OpacityClamped ==
  /\ reveal.opacity \in 0..100
  /\ alphaUsed \in 0..100

\* C14: when the user prefers reduced motion and initMetamorphosis() has
\* found the canvas and declined, a startMetamorphosis() call leaves the
\* animator not running, creates no timeline and draws nothing.
C14_ReducedMotionNeverStarts ==
  [][(page = "meta" /\ called' = "start" /\ dom.reducedMotion
        /\ meta.canvas # NULL /\ ~meta.isRunning)
       => /\ ~meta'.isRunning
          /\ timelines' = timelines /\ meta'.mainTimeline = 0
          /\ mcanvas' = mcanvas]_vars

\* C15: every start of the animator (after a resize too) rebuilds the
\* particle array to cols*rows particles on a canvas sized from the current
\* layout, each particle drawn at the centre of that canvas and each chaos
\* target drawn inside it, for a device-pixel ratio of 1 or the capped 2.
C15_ParticlesCentredInBounds ==
  [][(page = "meta" /\ called' = "start" /\ ~meta.isRunning /\ meta'.isRunning)
       => /\ meta'.canvasWidth = dom.rectWidth * Dpr(dom.devicePixelRatio)
          /\ meta'.particles.count = Cols * Rows
          /\ meta'.particles.at = "center"
          /\ 2 * meta'.particles.x * meta'.scale = meta'.canvasWidth
          /\ meta'.particles.chaosX >= 0
          /\ meta'.particles.chaosX * meta'.scale < meta'.canvasWidth]_vars

\* A resize event has not yet been followed by a resize of the canvas.
ResizeUnapplied == resizer.lastEvent >= 0 /\ resizer.appliedSince = 0

\* C16 as stated: on the live hero reveal the canvas is resized by the
\* debounce timer only, exactly 100 ms after the last resize event, to the
\* layout size of that moment; every burst (events less than 100 ms apart)
\* is applied exactly once, so an event that starts a new burst finds the
\* previous burst applied.
C16_DebouncedExactlyOncePerBurst ==
  [][(page = "reveal" /\ hero.isRunning)
       => /\ resizer'.applied # resizer.applied => called' = "resizeTimer"
          /\ called' = "resizeTimer"
               => /\ ~threw'
                  /\ now = resizer.lastEvent + ResizeDelay
                  /\ resizer'.applied = resizer.layout
          /\ resizer'.appliedSince <= 1
          /\ (called' = "resize" /\ resizer.lastEvent >= 0
                /\ now >= resizer.lastEvent + ResizeDelay)
               => resizer.appliedSince = 1
          /\ ResizeUnapplied' => resizer'.lastEvent + ResizeDelay \in resizer'.timers]_vars

\* C16, amended: the canvas is resized by the debounce timer only, no
\* earlier than 100 ms after the last resize event, to the layout size of
\* that moment, and at most once after that event; while an event is not
\* yet applied the timer for it stays set, so no event's effect is dropped.
C16_DebouncedAtLeastDelay ==
  [][(page = "reveal" /\ hero.isRunning)
       => /\ resizer'.applied # resizer.applied => called' = "resizeTimer"
          /\ called' = "resizeTimer"
               => /\ ~threw'
                  /\ now >= resizer.lastEvent + ResizeDelay
                  /\ resizer'.applied = resizer.layout
          /\ resizer'.appliedSince <= 1
          /\ ResizeUnapplied' => resizer'.timers = {resizer'.lastEvent + ResizeDelay}]_vars

\* C16 witness: the timer resized the canvas once for a burst of at least
\* two events, to a size other than the one before.
C16_BurstApplied ==
  /\ called = "resizeTimer" /\ resizer.lastBurst >= 2
  /\ resizer.appliedSince = 1 /\ resizer.applied = 1000

\* C20: for channel values in 0..255 calculateLuminance returns the weighted
\* sum rounded to a nearest integer, in 0..255; 0 for black and 255 for
\* white; and a call with no channel lower than in the call before returns
\* no less than that call did.
C20_LuminanceInRangeMonotone ==
  [][called' = "calculateLuminance"
       => LET a == calc'.args IN
          /\ ~threw'
          /\ calc'.out \in 0..255
          /\ 10000 * calc'.out - WeightedSum(a[1], a[2], a[3]) \in (0 - 5000)..5000
          /\ a = <<0, 0, 0>> => calc'.out = 0
          /\ a = <<255, 255, 255>> => calc'.out = 255
          /\ (calc.fn = "calculateLuminance"
                /\ \A i \in 1..3 : calc.args[i] <= a[i])
               => calc.out <= calc'.out]_vars

\* C20 witness: calculateLuminance returned 255 for a white pixel.
C20_WhiteIsBrightest ==
  /\ called = "calculateLuminance"
  /\ calc.args = <<255, 255, 255>> /\ calc.out = 255

\* The pixels of a buffer, as r, g, b, a.
PixelsOf(imageData) ==
  [k \in 1..(imageData.width * imageData.height) |->
     [c \in 1..4 |-> imageData.data[4 * (k - 1) + c]]]

\* C19: for a ramp of N >= 2 characters charForLuminance reads the index
\* min(floor(luminance / 255 * N), N - 1), counted from the other end when
\* inverted, so that 0 gives the first and 255 the last character (the last
\* and the first when inverted); a call with a higher luminance gives no
\* lower index (no higher one when inverted); and mapLuminance of an
\* all-white buffer with the simple ramp gives '@' in every cell.
C19_RampIndexMonotone ==
  [][/\ called' = "charForLuminance"
          => LET a    == calc'.args
                 ramp == CharSets[a.ramp]
                 N    == Len(ramp)
                 k    == Min((a.luminance * N) \div 255, N - 1) IN
             /\ ~threw'
             /\ calc'.index = IF a.invert THEN N - 1 - k ELSE k
             /\ calc'.out = ramp[calc'.index + 1]
             /\ a.luminance = 0 => calc'.out = ramp[IF a.invert THEN N ELSE 1]
             /\ a.luminance = 255 => calc'.out = ramp[IF a.invert THEN 1 ELSE N]
             /\ (calc.fn = "charForLuminance" /\ calc.args.luminance <= a.luminance)
                  => IF a.invert THEN calc'.index <= calc.index
                                 ELSE calc'.index >= calc.index
     /\ (called' = "mapLuminance" /\ calc'.args.ramp = "simple" /\ ~calc'.args.invert
           /\ \A k \in DOMAIN PixelsOf(calc'.args.imageData) :
                PixelsOf(calc'.args.imageData)[k] = <<255, 255, 255, 255>>)
          => /\ ~threw'
             /\ Len(calc'.out) = calc'.args.imageData.height
             /\ \A y \in DOMAIN calc'.out :
                  /\ Len(calc'.out[y]) = calc'.args.imageData.width
                  /\ \A x \in DOMAIN calc'.out[y] : calc'.out[y][x] = 64]_vars

\* C19 witness: mapLuminance encoded an all-white buffer of several pixels
\* with the simple ramp to rows of '@'.
C19_AllWhiteIsAt ==
  /\ called = "mapLuminance" /\ calc.args.ramp = "simple" /\ ~calc.args.invert
  /\ calc.args.imageData.width = 2 /\ calc.args.imageData.height = 2
  /\ \A k \in 1..4 : PixelsOf(calc.args.imageData)[k] = <<255, 255, 255, 255>>
  /\ calc.out = <<(<<64, 64>>), (<<64, 64>>)>>

\* The sub-pixels of a block: 2x2 for the quadrants, 2x4 for braille.
SubPixels(fn) == (0..1) \X (0..(IF fn = "encodeBlocks" THEN 1 ELSE 3))

\* The truth table of the block of output cell <<cx, cy>> of call c: the
\* sub-pixels inside the buffer whose luminance is above the threshold.
TruthTable(c, cx, cy) ==
  LET img == c.args.imageData
      bh  == IF c.fn = "encodeBlocks" THEN 2 ELSE 4 IN
  {d \in SubPixels(c.fn) :
     LET x == (cx - 1) * 2 + d[1]
         y == (cy - 1) * bh + d[2] IN
     /\ x < img.width /\ y < img.height
     /\ LET i == 4 * (y * img.width + x) IN
        CalculateLuminance(img.data[i + 1], img.data[i + 2], img.data[i + 3])
          > c.args.threshold}

Cells(c) == {<<cx, cy>> \in (1..Len(c.out[1])) \X (1..Len(c.out)) : TRUE}

\* C18: in the output of the quadrant and braille encoders a block with no
\* sub-pixel above the threshold is the empty glyph (space, U+2800), a block
\* with every sub-pixel above it the full glyph (U+2588, U+28FF), a 2x2
\* block with only the top-left above it the glyph of index 1 of the
\* quadrant table (U+2598); and two blocks, of the same call or of two
\* calls of the same encoder, have the same character exactly if they have
\* the same truth table.
C18_BlockGlyphByTruthTable ==
  [][called' \in {"encodeBlocks", "encodeBraille"}
       => LET quad == calc'.fn = "encodeBlocks" IN
          /\ ~threw'
          /\ \A e \in Cells(calc') :
               LET t  == TruthTable(calc', e[1], e[2])
                   ch == calc'.out[e[2]][e[1]] IN
               /\ t = {} => ch = (IF quad THEN 32 ELSE 10240)
               /\ t = SubPixels(calc'.fn) => ch = (IF quad THEN 9608 ELSE 10495)
               /\ (quad /\ t = {<<0, 0>>}) => ch = 9624
               /\ \A f \in Cells(calc') :
                    (t = TruthTable(calc', f[1], f[2])) <=> (ch = calc'.out[f[2]][f[1]])
               /\ calc.fn = calc'.fn
                    => \A f \in Cells(calc) :
                         (t = TruthTable(calc, f[1], f[2])) <=> (ch = calc.out[f[2]][f[1]])]_vars

\* C18 witness: encodeBraille returned the full glyph for a 2x4 buffer whose
\* pixels are all above the threshold.
C18_BrailleFullBlock ==
  /\ called = "encodeBraille" /\ calc.args.threshold = 128
  /\ calc.args.imageData.width = 2 /\ calc.args.imageData.height = 4
  /\ calc.out = <<(<<10495>>)>>

\* C17: floydSteinbergDither, atkinsonDither and bayerDither return a buffer
\* of the width and height of the input in which every pixel has
\* R = G = B = 0 or 255 and the alpha byte of the input.
C17_DitherMonochromeSameSize ==
  [][called' = "applyDithering"
       => LET in  == calc'.args.imageData
              out == calc'.out IN
          /\ ~threw'
          /\ out.width = in.width /\ out.height = in.height
          /\ DOMAIN out.data = DOMAIN in.data
          /\ \A k \in DOMAIN PixelsOf(in) :
               LET p == PixelsOf(out)[k] IN
               /\ p[1] \in {0, 255} /\ p[2] = p[1] /\ p[3] = p[1]
               /\ p[4] = PixelsOf(in)[k][4]]_vars

\* C17 witness: atkinsonDither returned a 2x2 buffer with black and white
\* pixels for an input that had a coloured, half-transparent pixel.
C17_AtkinsonMixed ==
  /\ called = "applyDithering" /\ calc.args.algorithm = "atkinson"
  /\ calc.args.imageData.width = 2 /\ calc.args.imageData.height = 2
  /\ \E k \in 1..4 : PixelsOf(calc.args.imageData)[k] = <<200, 100, 50, 128>>
  /\ \E k, j \in 1..4 : PixelsOf(calc.out)[k][1] = 0 /\ PixelsOf(calc.out)[j][1] = 255

\* imageData extended to the right and downwards with black pixels to a
\* width that is a multiple of 2 and a height that is a multiple of bh.
Padded(imageData, bh) ==
  LET w  == imageData.width
      h  == imageData.height
      pw == 2 * ((w + 1) \div 2)
      ph == bh * ((h + bh - 1) \div bh) IN
  [ width  |-> pw,
    height |-> ph,
    data   |-> [i \in 1..(4 * pw * ph) |->
                  LET c == (i - 1) % 4
                      x == ((i - 1) \div 4) % pw
                      y == ((i - 1) \div 4) \div pw IN
                  IF x < w /\ y < h THEN imageData.data[4 * (y * w + x) + c + 1]
                  ELSE IF c = 3 THEN 255 ELSE 0] ]

\* C21: getPixelLuminance returns 0, without an error, for a coordinate
\* outside the buffer; for a w x h buffer encodeBlocks returns ceil(h/2)
\* rows and encodeBraille ceil(h/4) rows, each of ceil(w/2) characters, and
\* the characters are those of the buffer filled up with dark pixels to
\* whole blocks.
C21_OutOfBoundsIsDark ==
  [][/\ called' = "getPixelLuminance"
          => LET a == calc'.args IN
             /\ ~threw'
             /\ (a.x < 0 \/ a.x >= a.imageData.width
                   \/ a.y < 0 \/ a.y >= a.imageData.height) => calc'.out = 0
     /\ called' \in {"encodeBlocks", "encodeBraille"}
          => LET img == calc'.args.imageData
                 bh  == IF called' = "encodeBlocks" THEN 2 ELSE 4 IN
             /\ ~threw'
             /\ Len(calc'.out) = (img.height + bh - 1) \div bh
             /\ \A y \in DOMAIN calc'.out :
                  Len(calc'.out[y]) = (img.width + 1) \div 2
             /\ \A padded \in {Padded(img, bh)} :
                  calc'.out = Encode(called', padded, calc'.args.threshold)]_vars

\* C21 witness: encodeBraille returned one row of two characters for a 3x2
\* buffer of bright pixels: the dots of the missing column and rows are off.
C21_BoundaryBlocks ==
  /\ called = "encodeBraille"
  /\ calc.args.imageData = MakeImage(3, 2, [k \in 1..6 |-> <<129, 129, 129, 255>>])
  /\ calc.out = <<(<<10240 + 1 + 2 + 8 + 16, 10240 + 1 + 2>>)>>

\* C22: frames are skipped, never queued.  A refresh callback processes at
\* most one frame; when it processes one, the last frame time moves forward
\* by at least one frame interval to within one interval of the callback's
\* timestamp; and after every callback of a playing engine the time credit
\* left (timestamp minus last frame time) is less than one frame interval,
\* so a callback that follows at the same instant processes nothing.
C22_FramesSkippedNotQueued ==
  [][called' = "animate" /\ engine'.isPlaying
        => LET credit == now - engine'.lastFrameTime IN
           /\ frameLog' \in {frameLog, LogFrame(frameLog, engine.targetFps, now)}
           /\ credit < engine.frameInterval
           /\ frameLog' # frameLog
                => /\ credit >= 0
                   /\ engine'.lastFrameTime >= engine.lastFrameTime + engine.frameInterval
                   /\ now - engine.lastFrameTime >= engine.frameInterval]_vars

\* C22 witness: a callback has just processed a frame two or more frame
\* intervals after the previous one and carries a credit past it.
C22_FrameAfterGap ==
  LET k == Len(frameLog) IN
  /\ called = "animate"
  /\ k >= 2
  /\ frameLog[k] = now
  /\ frameLog[k] - frameLog[k - 1] >= 2 * engine.frameInterval
  /\ now - engine.lastFrameTime > 0

\* C23: AsciiVideoEngine - after destroy() returned, neither the
\* continuation of a play() that was awaiting the play promise nor a
\* refresh callback processes a frame, touches a released resource (which
\* would throw on the null field) or schedules a refresh callback, and the
\* engine stays not playing.
C23_NothingRunsAfterDestroy ==
  [][destroyed /\ called' \in {"playResolved", "animate"}
        => /\ frameLog' = frameLog
           /\ ~threw'
           /\ eraf' <= eraf
           /\ ~engine'.isPlaying]_vars

\* A refresh callback scheduled after destroy() entered _processFrame and
\* failed on the released video element.
C23_FrameAttemptAfterDestroy ==
  destroyed /\ called = "animate" /\ threw /\ engine.video = NULL

\* C24: hero video reveal - after destroy() of the handle returned, no
\* callback scheduled before it calls the canvas again: an animation-frame
\* callback finds isRunning false and does not render, and no debounce
\* timer runs handleResize, which calls resize on the destroyed
\* VideoRevealCanvas.
C24_NoCallbackAfterHeroDestroy ==
  [][destroyed
        => /\ called' # "resizeTimer"
           /\ called' = "animate" => ~hero.isRunning /\ rcanvas' = rcanvas]_vars

\* The debounce timer set by a resize event before destroy() ran after it:
\* resize() dereferenced the released canvas.
C24_ResizeAfterHeroDestroy ==
  destroyed /\ called = "resizeTimer" /\ threw /\ reveal.canvas = NULL

\* C25: the sampling resolution _calculateDimensions returns has a width
\* that is a multiple of 2 and a height that is a multiple of 4 for the
\* braille set, and a width and a height that are multiples of 2 for the
\* quadrants set, whatever the column count and the aspect ratio.
C25_DimensionsWholeBlocks ==
  [][called' = "processFrame"
        => LET cs == calc'.args.characterSet
               d  == calc'.out IN
           /\ cs = "braille" => d.width % 2 = 0 /\ d.height % 4 = 0
           /\ cs = "quadrants" => d.width % 2 = 0 /\ d.height % 2 = 0]_vars

\* C25 witness: 7 columns of braille over a portrait video were cut down to
\* 6 samples across and 4 down.
C25_OddWidthPortrait ==
  /\ called = "processFrame"
  /\ calc.args = [width |-> 7, characterSet |-> "braille",
                  videoWidth |-> 1080, videoHeight |-> 1920]
  /\ calc.out = [width |-> 6, height |-> 4]

\* C26: for every column count of at least 1, every character set and
\* every aspect ratio the sampling resolution has a width and a height of
\* at least 1, and the extraction of the frame's pixels does not fail on an
\* empty buffer.
C26_DimensionsNeverEmpty ==
  [][called' = "processFrame" /\ calc'.args.width >= 1
        => /\ calc'.out.width >= 1
           /\ calc'.out.height >= 1
           /\ ~threw']_vars

\* One column of braille: the width is floored to 0 and getImageData fails.
C26_OneColumnEmpty ==
  /\ called = "processFrame"
  /\ calc.args.width = 1 /\ calc.args.characterSet = "braille"
  /\ calc.out.width = 0
  /\ threw

\* C27: AsciiVideoEngine - at any time at most one refresh callback of the
\* engine is pending, i.e. there is at most one per-frame loop, under every
\* interleaving of play(), pause() and toggle() with the resolutions of the
\* play promises.
C27_AtMostOneLoop == eraf <= 1

\* Two play() calls were both awaiting the promise; after both resolved two
\* chains of refresh callbacks run while the engine plays.
C27_TwoLoops ==
  page = "engine" /\ engine.isPlaying /\ eraf = 2 /\ called = "animate"

\* C28: the metamorphosis animator runs exactly while the rectangle of the
\* magnetic cursor is active: while it is active (and the page has the
\* animator's canvas) the animator is running, and whenever the magnetic
\* cursor is inactive, after closeRectangle or destroyMagneticCursor, the
\* animator is not running.
C28_AnimatorFollowsRectangle ==
  /\ magnet.isActive /\ dom.hasCanvas => meta.isRunning
  /\ ~magnet.isActive => ~meta.isRunning

\* The effect was destroyed while the rectangle was drawn: the animator
\* runs on, its timeline advancing, with the magnetic cursor inactive.
C28_AnimatorOutlivesCursor ==
  /\ ~magnet.isInitialized /\ ~magnet.isActive
  /\ meta.isRunning
  /\ called = "tween"

\* The rectangle became active in this step: by a frame of the loop on
\* which the pointer is closer than captureRadius or than 0.6 magnetRadius.
ActivatedInReach ==
  ~magnet.isActive /\ magnet'.isActive
    => /\ called' \in {"magnetLoop", "initMagneticCursor"}
       /\ \/ magnet'.dist < magnet'.config.captureRadius
          \/ 10 * magnet'.dist < 6 * magnet'.config.magnetRadius

\* The rectangle became inactive in this step of the loop or the pointer:
\* the pointer is farther than escapeRadius.
ReleasedBeyondEscape ==
  magnet.isActive /\ ~magnet'.isActive /\ called' # "destroyMagneticCursor"
    => magnet'.dist > magnet'.config.escapeRadius

\* C29 as stated: the rectangle becomes active only on a frame where the
\* pointer is closer than captureRadius or than 0.6 magnetRadius, becomes
\* inactive only when it is farther than escapeRadius, and once active a
\* pointer move or frame with the pointer within escapeRadius changes
\* neither the active nor the captured flag.
C29_FlagsFrozenWithinEscape ==
  [][/\ ActivatedInReach
     /\ ReleasedBeyondEscape
     /\ (/\ magnet.isActive
         /\ called' \in {"mousemove", "magnetLoop"}
         /\ magnet'.dist <= magnet'.config.escapeRadius)
          => /\ magnet'.isActive = magnet.isActive
             /\ magnet'.isCaptured = magnet.isCaptured]_vars

\* C29 amended: activation and release as stated, release also by
\* destroyMagneticCursor; once active, a pointer move or frame with the
\* pointer within escapeRadius keeps the rectangle active and never clears
\* the captured flag; the captured flag is set, also after activation, by a
\* frame on which the pointer is closer than captureRadius.
C29_ActiveHeldWithinEscape ==
  [][/\ ActivatedInReach
     /\ ReleasedBeyondEscape
     /\ (/\ magnet.isActive
         /\ called' \in {"mousemove", "magnetLoop"}
         /\ magnet'.dist <= magnet'.config.escapeRadius)
          => /\ magnet'.isActive
             /\ magnet.isCaptured => magnet'.isCaptured
     /\ ~magnet.isCaptured /\ magnet'.isCaptured
          => /\ called' \in {"magnetLoop", "initMagneticCursor"}
             /\ magnet'.dist < magnet'.config.captureRadius
             /\ magnet'.isActive]_vars

\* C29 witness: a frame ran with the pointer between the magnet radius and
\* the escape radius and left the captured rectangle active.
C29_HeldInEscapeBand ==
  /\ called = "magnetLoop"
  /\ magnet.config = DefaultRadii
  /\ magnet.dist = 110
  /\ magnet.isActive /\ magnet.isCaptured

\* C30: TextMaskedVideo - once destroy() has returned the canvas is not
\* attached to the container, none of the resize, mousemove, mouseenter and
\* mouseleave listeners is registered and no pass of the render loop draws,
\* also when destroy() was called while init() was awaiting the font.
C30_DestroyedStaysDetached ==
  [][tmv.isDestroyed
        => /\ ~tmv'.canvasAttached
           /\ ~tmv'.listeners
           /\ tmv'.shown = tmv.shown
           /\ traf' <= traf]_vars

\* destroy() ran during the await of the font; init() then resumed, attached
\* the canvas and registered the listeners on the destroyed instance.
C30_AttachedAfterDestroy ==
  /\ page = "tmv"
  /\ tmv.isDestroyed /\ called = "init"
  /\ tmv.canvasAttached /\ tmv.listeners

=============================================================================
